---- MODULE Spec2Model ----
(***************************************************************************)
(* A model of nutrimat.py: the food catalog, the Open Food Facts search    *)
(* pager (handle_search_food), the meal editor (run_meal_editor) and the   *)
(* nutrition aggregation functions (calculate_meal_nutrition,              *)
(* calculate_day_nutrition).                                               *)
(*                                                                         *)
(* Numbers: nutrient values are floats in the program; here they are       *)
(* whole numbers, and the aggregation functions round every sum and        *)
(* product as binary floating point does.  Strings that the program        *)
(* matches with fnmatch are sequences of one-character strings.            *)
(***************************************************************************)
EXTENDS Integers, Sequences, FiniteSets, TLC

VARIABLES
    mode,                  \* which prompt the process is blocked on: "main", "search", "editor",
                           \* "log", "exited"
    out,                   \* the last message the handler printed (its kind)
    foods,                 \* app_data["foods"]: name -> nutrient profile
    foods_file,            \* contents of data/foods.yaml
    activities,            \* app_data["activities"]: name -> nutrient profile
    activities_file,       \* contents of data/activities.yaml
    meals,                 \* app_data["meals"]: name -> list of references to line objects
    meals_file,            \* contents of data/meals.yaml: name -> list of line values
    heap,                  \* the line dictionaries {"food":..., "quantity":...} by object identity
    svc_products,          \* the remote database's result list for the query of the session
    svc_log,               \* per page: was it requested, how often was it delivered
    all_products,          \* handle_search_food: all_products
    current_page,          \* handle_search_food: current_page
    current_filter,        \* handle_search_food: current_filter
    total_products,        \* handle_search_food: total_products
    total_pages,           \* handle_search_food: total_pages
    displayed_rows,        \* the rows of the table printed by the last display_search_results
    rendered_from,         \* the page, filter and records that call was made with
    selected_product,      \* handle_search_food: selected_product of the last 'a' command
    meal_name,             \* run_meal_editor: meal_name
    current_meal_contents, \* run_meal_editor: current_meal_contents (references to line objects)
    editor,                \* state of the editing session: "none", "Editing", "Saved", "Aborted"
    day_entries,           \* app_data["diary"][today]: the entries of the current day
    diary_file,            \* contents of data/diary.yaml for the current day
    earlier_days,          \* app_data["diary"] for yesterday, the day before, ...
    total_nutrition,       \* the totals returned by the last calculate_day_nutrition call
    summary,               \* what the last handle_summary counted, added up and printed
    today_in_diary,        \* is the current date a key of app_data["diary"]
    log_type,              \* which of the three log handlers is running, "none" if none is
    log_page,              \* the log handler's current_page
    log_rows               \* the rows of the table the log handler printed last

catalogVars == <<foods, foods_file, activities, activities_file>>
mealVars == <<meals, meals_file, heap>>
searchVars == <<svc_products, svc_log, all_products, current_page, current_filter,
                total_products, total_pages, displayed_rows, rendered_from,
                selected_product>>
editorVars == <<meal_name, current_meal_contents, editor>>
logVars == <<log_type, log_page, log_rows>>
aggVars == <<day_entries, diary_file, earlier_days, total_nutrition, summary,
             today_in_diary, logVars>>
vars == <<mode, out, catalogVars, mealVars, searchVars, editorVars, aggVars>>

----------------------------------------------------------------------------
(* Bounds of the model *)

\* largest number of products the remote database holds for a query
MaxCount == 3
\* largest number of products of a result list of SpecPaging
MaxLongCount == 5
\* largest quantity (pieces) a meal line may reach through the editor
MaxQty == 2
\* largest number of entries of a diary day
MaxEntries == 3
\* bits of the significand of a float
FloatBits == 10

\* SEARCH_PAGE_SIZE of the program is 25; the model pages by 2
SEARCH_PAGE_SIZE == 2

Min(a, b) == IF a < b THEN a ELSE b

\* math.ceil(a / b) for a >= 0, b > 0
\* one more than the whole quotient, also when b divides a
CeilPlusOne(a, b) == a \div b + 1

Ceil(a, b) == (a + b - 1) \div b

\* Python's seq[lo:hi] for 0 <= lo <= hi
Slice(seq, lo, hi) == SubSeq(seq, lo + 1, Min(hi, Len(seq)))

EmptyMap == [x \in {} |-> 0]

----------------------------------------------------------------------------
(* Values *)

Nutrients == {"calories", "fat", "carbs", "protein"}

Profile(c, f, k, p) == [calories |-> c, fat |-> f, carbs |-> k, protein |-> p]

ZeroProfile == Profile(0, 0, 0, 0)

\* a JSON value of a nutriments field: absent (None), the empty string, or a number
NoneVal == [kind |-> "none", v |-> 0]
EmptyVal == [kind |-> "empty", v |-> 0]
Num(n) == [kind |-> "num", v |-> n]

\* the products the remote database may hold: two complete ones with
\* different names and an incomplete one, whose fat is absent at odd
\* positions and whose proteins are the empty string at even ones; pos makes
\* every product of a result list distinct
ProductKinds == {"Ab", "ba", "incomplete"}

MkProduct(pos, kind) ==
    [product_name |-> CASE kind = "Ab" -> <<"A", "b">>
                        [] kind = "ba" -> <<"b", "a">>
                        [] OTHER -> <<"a", "b">>,
     energy_kcal_100g |-> Num(pos),
     fat_100g |-> IF kind = "incomplete" /\ pos % 2 = 1 THEN NoneVal ELSE Num(1),
     carbohydrates_100g |-> Num(2),
     proteins_100g |-> IF kind = "incomplete" /\ pos % 2 = 0 THEN EmptyVal ELSE Num(3)]

NoProduct == [product_name |-> <<>>, energy_kcal_100g |-> NoneVal, fat_100g |-> NoneVal,
              carbohydrates_100g |-> NoneVal, proteins_100g |-> NoneVal]

ResultLists ==
    UNION {{[i \in 1..n |-> MkProduct(i, k[i])] : k \in [1..n -> ProductKinds]} : n \in 0..MaxCount}

\* filter patterns typed after '/', already stripped and lower-cased
FilterPatterns == {<<>>, <<"a", "*">>, <<"?", "a">>}

LocalNames == {"x"}

----------------------------------------------------------------------------
(* fnmatch *)

\* str.lower() on the model's alphabet
LowerChar(c) == IF c = "A" THEN "a" ELSE IF c = "B" THEN "b" ELSE c

Lower(s) == [i \in 1..Len(s) |-> LowerChar(s[i])]

\* fnmatch.fnmatchcase for patterns over literals, '*' and '?'
RECURSIVE FnMatch(_, _)
FnMatch(name, pat) ==
    IF pat = <<>> THEN name = <<>>
    ELSE IF Head(pat) = "*"
         THEN FnMatch(name, Tail(pat)) \/ (name # <<>> /\ FnMatch(Tail(name), pat))
    ELSE IF name = <<>> THEN FALSE
    ELSE (Head(pat) = "?" \/ Head(pat) = Head(name)) /\ FnMatch(Tail(name), Tail(pat))

\* the test of lines 251 and 404: the product is skipped when this is true
FilteredOut(product, filter) ==
    filter # <<>> /\ ~FnMatch(Lower(product.product_name), filter)

\* the test without its second half: any(val is None ...)
IncompleteOnlyNone(product) ==
    \E val \in {product.energy_kcal_100g, product.fat_100g,
                product.carbohydrates_100g, product.proteins_100g} :
        val = NoneVal

\* the test of lines 262 and 412: any(val is None or val == '' ...)
Incomplete(product) ==
    \E val \in {product.energy_kcal_100g, product.fat_100g,
                product.carbohydrates_100g, product.proteins_100g} :
        val = NoneVal \/ val = EmptyVal

----------------------------------------------------------------------------
(* The remote search service (fetch_openfoodfacts_page) *)

Pages == 1..Ceil(IF MaxLongCount > MaxCount THEN MaxLongCount ELSE MaxCount, SEARCH_PAGE_SIZE)

\* data.get('products', []) of the request for page: the page-th slice of
\* the result list
ProductsOfPage(results, page) ==
    Slice(results, (page - 1) * SEARCH_PAGE_SIZE, page * SEARCH_PAGE_SIZE)

NoRequests == [p \in Pages |-> [requested |-> FALSE, delivered |-> 0]]

\* the service's record of a request for page, answered (ok) or failed
Requested(log, page, ok) ==
    [log EXCEPT ![page] = [requested |-> TRUE,
                           delivered |-> IF ok THEN @.delivered + 1 ELSE @.delivered]]

----------------------------------------------------------------------------
(* display_search_results and the index resolution of the 'a' command *)

\* all_products[(current_page - 1) * SEARCH_PAGE_SIZE : current_page * SEARCH_PAGE_SIZE]
CurrentPageProducts(products, page) ==
    Slice(products, (page - 1) * SEARCH_PAGE_SIZE, page * SEARCH_PAGE_SIZE)

\* the rows of the table if it also listed the products lacking a nutrient value
RECURSIVE DisplayRowsWithIncomplete(_, _)
DisplayRowsWithIncomplete(products, filter) ==
    IF products = <<>> THEN <<>>
    ELSE LET product == Head(products)
             rest == DisplayRowsWithIncomplete(Tail(products), filter)
         IN  IF FilteredOut(product, filter) THEN rest
             ELSE <<product>> \o rest

\* the rows display_search_results adds to its table, in order
RECURSIVE DisplayRows(_, _)
DisplayRows(products, filter) ==
    IF products = <<>> THEN <<>>
    ELSE LET product == Head(products)
             rest == DisplayRows(Tail(products), filter)
         IN  IF FilteredOut(product, filter) THEN rest
             ELSE IF Incomplete(product) THEN rest
             ELSE <<product>> \o rest

\* filtered_products_on_page as it would be without the test of line 404
RECURSIVE FilteredProductsOnPageUnfiltered(_, _)
FilteredProductsOnPageUnfiltered(products, filter) ==
    IF products = <<>> THEN <<>>
    ELSE LET product == Head(products)
             rest == FilteredProductsOnPageUnfiltered(Tail(products), filter)
         IN  IF ~Incomplete(product) THEN <<product>> \o rest ELSE rest

\* filtered_products_on_page of the 'a' command
RECURSIVE FilteredProductsOnPage(_, _)
FilteredProductsOnPage(products, filter) ==
    IF products = <<>> THEN <<>>
    ELSE LET product == Head(products)
             rest == FilteredProductsOnPage(Tail(products), filter)
         IN  IF FilteredOut(product, filter) THEN rest
             ELSE IF ~Incomplete(product) THEN <<product>> \o rest
             ELSE rest

\* float(x_100g) * quantity_factor, the factor held in hundredths (grams)
Scaled(val, grams) == (val.v * grams) \div 100

\* the record written under local_name
ImportedProfile(product, grams) ==
    Profile(Scaled(product.energy_kcal_100g, grams), Scaled(product.fat_100g, grams),
            Scaled(product.carbohydrates_100g, grams), Scaled(product.proteins_100g, grams))

\* the 'a' command without the test of line 440
AlreadyExistsNever(local_name) == FALSE

\* local_name in app_data["foods"]
AlreadyExists(local_name) == local_name \in DOMAIN foods

\* the arguments of an 'a' command after splitting: the index token (an
\* integer or not) and the optional quantity token (a number or not)
IndexArgs == {[num |-> TRUE, v |-> i] : i \in 0..(SEARCH_PAGE_SIZE + 1)}
                 \cup {[num |-> FALSE, v |-> 0]}

QuantityArgs == {[given |-> FALSE, num |-> FALSE, grams |-> 0],
                 [given |-> TRUE, num |-> TRUE, grams |-> 200],
                 [given |-> TRUE, num |-> TRUE, grams |-> 0],
                 [given |-> TRUE, num |-> TRUE, grams |-> -50],
                 [given |-> TRUE, num |-> FALSE, grams |-> 0]}

\* a float() that takes every quantity token
MalformedQuantityNever(qty_arg) == FALSE

\* float(quantity_input) raises ValueError (lines 384, 391)
MalformedQuantity(qty_arg) == qty_arg.given /\ ~qty_arg.num

\* quantity_factor * 100 without the fallback of lines 387-389
QuantityGramsAsGiven(qty_arg) ==
    IF ~qty_arg.given THEN 100
    ELSE qty_arg.grams

\* quantity_factor * 100 after lines 378-389
QuantityGrams(qty_arg) ==
    IF ~qty_arg.given THEN 100
    ELSE IF qty_arg.grams <= 0 THEN 100
    ELSE qty_arg.grams

----------------------------------------------------------------------------
(* handle_search_food *)

\* no table has been printed
NotRendered == [page |-> 0, filter |-> <<>>, products |-> <<>>]

\* the locals of handle_search_food do not exist outside a session
SearchLocalsGone ==
    /\ svc_products' = <<>>
    /\ svc_log' = NoRequests
    /\ all_products' = <<>>
    /\ current_page' = 1
    /\ current_filter' = <<>>
    /\ total_products' = 0
    /\ total_pages' = 0
    /\ displayed_rows' = <<>>
    /\ rendered_from' = NotRendered
    /\ selected_product' = NoProduct

\* a pager loop that prints its table once, before the first prompt
RenderStale(products, page, filter) ==
    IF mode = "main"
    THEN /\ displayed_rows' = DisplayRows(CurrentPageProducts(products, page), filter)
         /\ rendered_from' = [page |-> page, filter |-> filter, products |-> products]
    ELSE UNCHANGED <<displayed_rows, rendered_from>>

\* the top of the pager loop: display_search_results on the current slice
Render(products, page, filter) ==
    /\ displayed_rows' = DisplayRows(CurrentPageProducts(products, page), filter)
    /\ rendered_from' = [page |-> page, filter |-> filter, products |-> products]

\* 'search food <query>': the first fetch, then the first render
SearchFood(results, ok) ==
    /\ mode = "main"
    /\ UNCHANGED <<catalogVars, mealVars, editorVars, aggVars>>
    /\ IF ~ok
       THEN /\ mode' = "main"
            /\ out' = "search_connect_error"
            /\ SearchLocalsGone
       ELSE IF ProductsOfPage(results, 1) = <<>>
       THEN /\ mode' = "main"
            /\ out' = "search_no_results"
            /\ SearchLocalsGone
       ELSE /\ mode' = "search"
            /\ out' = "search_found"
            /\ svc_products' = results
            /\ svc_log' = Requested(NoRequests, 1, TRUE)
            /\ all_products' = ProductsOfPage(results, 1)
            /\ current_page' = 1
            /\ current_filter' = <<>>
            /\ total_products' = Len(results)
            /\ total_pages' = Ceil(Len(results), SEARCH_PAGE_SIZE)
            /\ selected_product' = NoProduct
            /\ Render(all_products', 1, <<>>)

\* 'q'
PagerQuit ==
    /\ mode = "search"
    /\ mode' = "main"
    /\ out' = "pager_quit"
    /\ SearchLocalsGone
    /\ UNCHANGED <<catalogVars, mealVars, editorVars, aggVars>>

\* all_products = products_on_page instead of all_products.extend(products_on_page)
ExtendedReplacing(products, fetched) == fetched

\* the products the 'n' command appends after a delivered fetch
Extended(products, fetched) == products \o fetched

\* does 'n' have to fetch the page it moves to
MustFetch(page, products) == page * SEARCH_PAGE_SIZE > Len(products)

\* the page number left as the failed fetch found it
NotRolledBack(page) == page

\* current_page -= 1 of the except clauses, after the current_page += 1 of line 340
RolledBack(page) == page - 1

\* 'n'; ok says whether a fetch, if one is made, is answered
PagerNext(ok) ==
    /\ mode = "search"
    /\ mode' = "search"
    /\ UNCHANGED <<catalogVars, mealVars, editorVars, aggVars>>
    /\ UNCHANGED <<svc_products, current_filter, total_products, total_pages, selected_product>>
    /\ IF current_page < total_pages
       THEN IF MustFetch(current_page + 1, all_products)
            THEN /\ svc_log' = Requested(svc_log, current_page + 1, ok)
                 /\ IF ok
                    THEN /\ all_products' =
                                Extended(all_products, ProductsOfPage(svc_products, current_page + 1))
                         /\ current_page' = current_page + 1
                         /\ out' = "next_fetched"
                    ELSE /\ all_products' = all_products
                         /\ current_page' = RolledBack(current_page + 1)
                         /\ out' = "fetch_error"
            ELSE /\ current_page' = current_page + 1
                 /\ out' = "next"
                 /\ UNCHANGED <<svc_log, all_products>>
       ELSE /\ out' = "last_page"
            /\ UNCHANGED <<svc_log, all_products, current_page>>
    /\ Render(all_products', current_page', current_filter)

\* a 'p' that takes every page for the first one
PagerPrevStaying ==
    /\ mode = "search"
    /\ mode' = "search"
    /\ UNCHANGED <<catalogVars, mealVars, editorVars, aggVars>>
    /\ UNCHANGED <<svc_products, svc_log, all_products, current_filter, total_products,
                   total_pages, selected_product>>
    /\ current_page' = current_page /\ out' = "first_page"
    /\ Render(all_products, current_page', current_filter)

\* 'p'
PagerPrev ==
    /\ mode = "search"
    /\ mode' = "search"
    /\ UNCHANGED <<catalogVars, mealVars, editorVars, aggVars>>
    /\ UNCHANGED <<svc_products, svc_log, all_products, current_filter, total_products,
                   total_pages, selected_product>>
    /\ IF current_page > 1
       THEN current_page' = current_page - 1 /\ out' = "prev"
       ELSE current_page' = current_page /\ out' = "first_page"
    /\ Render(all_products, current_page', current_filter)

\* a '/ <pattern>' that also goes back to the first page
PagerFilterToFirstPage(pattern) ==
    /\ mode = "search"
    /\ mode' = "search"
    /\ UNCHANGED <<catalogVars, mealVars, editorVars, aggVars>>
    /\ UNCHANGED <<svc_products, svc_log, all_products, total_products,
                   total_pages, selected_product>>
    /\ current_page' = 1
    /\ current_filter' = pattern
    /\ out' = "filter_set"
    /\ Render(all_products, 1, pattern)

\* '/ <pattern>'
PagerFilter(pattern) ==
    /\ mode = "search"
    /\ mode' = "search"
    /\ UNCHANGED <<catalogVars, mealVars, editorVars, aggVars>>
    /\ UNCHANGED <<svc_products, svc_log, all_products, current_page, total_products,
                   total_pages, selected_product>>
    /\ current_filter' = pattern
    /\ out' = "filter_set"
    /\ Render(all_products, current_page, pattern)

\* 'a' with fewer than two arguments
PagerAddUsage ==
    /\ mode = "search"
    /\ mode' = "search"
    /\ out' = "add_usage"
    /\ UNCHANGED <<catalogVars, mealVars, editorVars, aggVars, searchVars>>

\* 'a <index> <local_name> [quantity]'
PagerAdd(index_arg, local_name, qty_arg) ==
    /\ mode = "search"
    /\ UNCHANGED <<activities, activities_file, mealVars, editorVars, aggVars>>
    /\ LET filtered == FilteredProductsOnPage(
                           CurrentPageProducts(all_products, current_page), current_filter)
           grams == QuantityGrams(qty_arg)
           stay(msg) == /\ mode' = "search"
                        /\ out' = msg
                        /\ UNCHANGED <<foods, foods_file, searchVars>>
       IN  IF ~index_arg.num THEN stay("invalid_index_format")
           ELSE IF MalformedQuantity(qty_arg) THEN stay("invalid_quantity")
           ELSE IF index_arg.v < 1 \/ index_arg.v > Len(filtered) THEN stay("invalid_index")
           ELSE IF AlreadyExists(local_name)
           THEN /\ mode' = "main"
                /\ out' = "already_exists"
                /\ SearchLocalsGone
                /\ UNCHANGED <<foods, foods_file>>
           ELSE /\ mode' = "search"
                /\ out' = "added_from_search"
                /\ selected_product' = filtered[index_arg.v]
                /\ foods' = (local_name :> ImportedProfile(filtered[index_arg.v], grams)) @@ foods
                /\ foods_file' = foods'
                /\ UNCHANGED <<svc_products, svc_log, all_products, current_page,
                               current_filter, total_products, total_pages>>
                /\ Render(all_products, current_page, current_filter)

\* any other pager command line
PagerUnknown ==
    /\ mode = "search"
    /\ mode' = "search"
    /\ out' = "pager_unknown"
    /\ UNCHANGED <<catalogVars, mealVars, editorVars, aggVars, searchVars>>

\* end of input at the pager prompt: EOFError, caught by line 459
PagerEOF ==
    /\ mode = "search"
    /\ mode' = "main"
    /\ out' = "search_error"
    /\ SearchLocalsGone
    /\ UNCHANGED <<catalogVars, mealVars, editorVars, aggVars>>

\* Ctrl-C at the pager prompt: KeyboardInterrupt passes line 459 and ends run_tracker
PagerInterrupt ==
    /\ mode = "search"
    /\ mode' = "exited"
    /\ out' = "exit_interrupt"
    /\ SearchLocalsGone
    /\ UNCHANGED <<catalogVars, mealVars, editorVars, aggVars>>

----------------------------------------------------------------------------
(* handle_add_food, handle_delete_food, handle_add_activity,          *)
(* handle_delete_activity, handle_edit_activity                       *)

CatalogNames == {"x", "y"}

CatalogProfiles == {Profile(1, 0, 0, 0), Profile(2, 1, 1, 1)}

\* the four number arguments of a catalog command: all of them floats, or not
ProfileArgs ==
    {[num |-> TRUE, p |-> P] : P \in CatalogProfiles} \cup {[num |-> FALSE, p |-> ZeroProfile]}

\* a catalog in which no name is ever found
NameTakenNever(name, catalog) == FALSE

\* name in app_data["foods"], name in app_data["activities"]
NameTaken(name, catalog) == name \in DOMAIN catalog

\* a catalog without the record of name
Deleted(catalog, name) == [n \in DOMAIN catalog \ {name} |-> catalog[n]]

\* 'add food <name> <calories> <fat> <carbs> <protein>'
AddFood(name, profile_arg) ==
    /\ mode = "main"
    /\ UNCHANGED <<mode, activities, activities_file, mealVars, searchVars, editorVars, aggVars>>
    /\ IF ~profile_arg.num
       THEN out' = "food_not_numbers" /\ UNCHANGED <<foods, foods_file>>
       ELSE IF NameTaken(name, foods)
       THEN out' = "food_exists" /\ UNCHANGED <<foods, foods_file>>
       ELSE /\ out' = "food_added"
            /\ foods' = (name :> profile_arg.p) @@ foods
            /\ foods_file' = foods'

\* the ways save_data fails: makedirs or open raises OSError, which
\* save_data does not catch, or safe_dump raises a YAMLError, which it
\* catches and reports
SaveFailures == {"os_error", "yaml_error"}

\* the file after a save_data that failed: untouched if it could not be
\* opened, truncated by open(filepath, 'w') if the dump failed
FileAfterFailedSave(file, failure) == IF failure = "os_error" THEN file ELSE EmptyMap

\* the last message after a save_data that failed: the OSError reaches the
\* handler of run_tracker, which reports an unexpected error; after a
\* YAMLError save_data returns and the command prints its message of success
OutAfterFailedSave(success, failure) ==
    IF failure = "os_error" THEN "unexpected_error" ELSE success

\* 'add food <name> <calories> <fat> <carbs> <protein>' with a save_data that fails
AddFoodSaveFailing(name, profile_arg, failure) ==
    /\ mode = "main"
    /\ UNCHANGED <<mode, activities, activities_file, mealVars, searchVars, editorVars, aggVars>>
    /\ IF ~profile_arg.num
       THEN out' = "food_not_numbers" /\ UNCHANGED <<foods, foods_file>>
       ELSE IF NameTaken(name, foods)
       THEN out' = "food_exists" /\ UNCHANGED <<foods, foods_file>>
       ELSE /\ foods' = (name :> profile_arg.p) @@ foods
            /\ foods_file' = FileAfterFailedSave(foods_file, failure)
            /\ out' = OutAfterFailedSave("food_added", failure)

\* 'delete food <name>'
DeleteFood(name) ==
    /\ mode = "main"
    /\ UNCHANGED <<mode, activities, activities_file, mealVars, searchVars, editorVars, aggVars>>
    /\ IF name \notin DOMAIN foods
       THEN out' = "food_not_found" /\ UNCHANGED <<foods, foods_file>>
       ELSE /\ out' = "food_deleted"
            /\ foods' = Deleted(foods, name)
            /\ foods_file' = foods'

\* 'add activity <name> <calories> <fat> <carbs> <protein>'
AddActivity(name, profile_arg) ==
    /\ mode = "main"
    /\ UNCHANGED <<mode, foods, foods_file, mealVars, searchVars, editorVars, aggVars>>
    /\ IF ~profile_arg.num
       THEN out' = "activity_not_numbers" /\ UNCHANGED <<activities, activities_file>>
       ELSE IF NameTaken(name, activities)
       THEN out' = "activity_exists" /\ UNCHANGED <<activities, activities_file>>
       ELSE /\ out' = "activity_added"
            /\ activities' = (name :> profile_arg.p) @@ activities
            /\ activities_file' = activities'

\* 'delete activity <name>'
DeleteActivity(name) ==
    /\ mode = "main"
    /\ UNCHANGED <<mode, foods, foods_file, mealVars, searchVars, editorVars, aggVars>>
    /\ IF name \notin DOMAIN activities
       THEN out' = "activity_not_found" /\ UNCHANGED <<activities, activities_file>>
       ELSE /\ out' = "activity_deleted"
            /\ activities' = Deleted(activities, name)
            /\ activities_file' = activities'

\* 'edit activity <name> <calories> <fat> <carbs> <protein>'
EditActivity(name, profile_arg) ==
    /\ mode = "main"
    /\ UNCHANGED <<mode, foods, foods_file, mealVars, searchVars, editorVars, aggVars>>
    /\ IF ~profile_arg.num
       THEN out' = "activity_not_numbers" /\ UNCHANGED <<activities, activities_file>>
       ELSE IF name \notin DOMAIN activities
       THEN out' = "activity_not_found" /\ UNCHANGED <<activities, activities_file>>
       ELSE /\ out' = "activity_edited"
            /\ activities' = [activities EXCEPT ![name] = profile_arg.p]
            /\ activities_file' = activities'

----------------------------------------------------------------------------
(* Meals: lists of line dictionaries, which Python holds by reference *)

MealNames == {"m", "n"}

\* food names typed in the editor; "cherry" is never in the catalog
FoodNames == {"apple", "banana", "cherry"}

\* the values of the line objects a list refers to
Lines(contents, h) == [i \in 1..Len(contents) |-> h[contents[i]]]

\* what yaml.safe_dump writes for a meals dictionary
Dumped(ms, h) == [n \in DOMAIN ms |-> Lines(ms[n], h)]

Refs(contents) == {contents[i] : i \in 1..Len(contents)}

\* the order in which the objects are named: stored meals by name, then the working copy
MealNameOrder == <<"m", "n">>

RECURSIVE RefOrder(_, _, _)
RefOrder(names, ms, contents) ==
    IF names = <<>> THEN contents
    ELSE (IF Head(names) \in DOMAIN ms THEN ms[Head(names)] ELSE <<>>)
             \o RefOrder(Tail(names), ms, contents)

\* a sequence without its repeated elements
RECURSIVE Distinct(_)
Distinct(seq) ==
    IF seq = <<>> THEN <<>>
    ELSE LET d == Distinct(SubSeq(seq, 1, Len(seq) - 1))
             x == seq[Len(seq)]
         IN  IF \E i \in 1..Len(d) : d[i] = x THEN d ELSE Append(d, x)

PositionIn(seq, x) == CHOOSE i \in 1..Len(seq) : seq[i] = x

\* the dictionary of meals, the editor's list and the line objects they refer to:
\* objects nothing refers to are gone, the others are named 1..k in RefOrder
StoreObjects(ms, contents, h) ==
    LET order == Distinct(RefOrder(MealNameOrder, ms, contents))
        renamed(c) == [i \in 1..Len(c) |-> PositionIn(order, c[i])]
    IN  /\ meals' = [n \in DOMAIN ms |-> renamed(ms[n])]
        /\ current_meal_contents' = renamed(contents)
        /\ heap' = [k \in 1..Len(order) |-> h[order[k]]]

\* the identity of a newly created object
NewId(used) == CHOOSE id \in 1..(Cardinality(used) + 1) : id \notin used

\* handing the stored list itself to the editor, whose [:] copies the list but not its lines
SharedLines(contents, h) == [ids |-> contents, heap |-> h]

\* copy.deepcopy(app_data["meals"][meal_name]) followed by initial_contents[:]:
\* a new list of new line objects with the same values
RECURSIVE DeepCopy(_, _)
DeepCopy(contents, h) ==
    IF contents = <<>> THEN [ids |-> <<>>, heap |-> h]
    ELSE LET id == NewId(DOMAIN h)
             rest == DeepCopy(Tail(contents), (id :> h[Head(contents)]) @@ h)
         IN  [ids |-> <<id>> \o rest.ids, heap |-> rest.heap]

\* a search that never finds the line
FindLineNever(contents, h, food_name) == 0

\* the loop of lines 601-606: the position of the first line of the food, 0 when there is none
RECURSIVE FindLine(_, _, _)
FindLine(contents, h, food_name) ==
    IF contents = <<>> THEN 0
    ELSE IF h[Head(contents)].food = food_name THEN 1
    ELSE LET k == FindLine(Tail(contents), h, food_name)
         IN  IF k = 0 THEN 0 ELSE k + 1

\* item["quantity"] = quantity_pieces
Overwritten(quantity, quantity_pieces) == quantity_pieces

\* item["quantity"] += quantity_pieces
Incremented(quantity, quantity_pieces) == quantity + quantity_pieces

\* a delete that drops the first line when the food has a line
WithoutFirstLine(contents, h, food_name) ==
    IF \E i \in 1..Len(contents) : h[contents[i]].food = food_name
    THEN Tail(contents)
    ELSE contents

\* [item for item in current_meal_contents if item["food"] != food_name_to_delete]
RECURSIVE WithoutFood(_, _, _)
WithoutFood(contents, h, food_name) ==
    IF contents = <<>> THEN <<>>
    ELSE IF h[Head(contents)].food # food_name
         THEN <<Head(contents)>> \o WithoutFood(Tail(contents), h, food_name)
         ELSE WithoutFood(Tail(contents), h, food_name)

\* the pieces argument of the editor's add command: an integer or not
PiecesArgs == {[num |-> TRUE, v |-> i] : i \in -1..MaxQty} \cup {[num |-> FALSE, v |-> 0]}

\* a test that lets zero pieces pass
NotPositiveBelowZero(quantity_pieces) == quantity_pieces < 0

\* quantity_pieces <= 0
NotPositive(quantity_pieces) == quantity_pieces <= 0

----------------------------------------------------------------------------
(* handle_add_meal, handle_edit_meal, handle_delete_meal, run_meal_editor *)

\* run_meal_editor up to its first prompt
EnterEditor(name, contents, h) ==
    /\ mode' = "editor"
    /\ out' = "editor_entered"
    /\ editor' = "Editing"
    /\ meal_name' = name
    /\ StoreObjects(meals, contents, h)
    /\ UNCHANGED meals_file

\* 'add meal <name>'
AddMeal(name) ==
    /\ mode = "main"
    /\ UNCHANGED <<catalogVars, searchVars, aggVars>>
    /\ IF name \in DOMAIN meals
       THEN /\ out' = "meal_exists"
            /\ UNCHANGED <<mode, mealVars, editorVars>>
       ELSE EnterEditor(name, <<>>, heap)

\* 'edit meal <name>'
EditMeal(name) ==
    /\ mode = "main"
    /\ UNCHANGED <<catalogVars, searchVars, aggVars>>
    /\ IF name \notin DOMAIN meals
       THEN /\ out' = "meal_not_found"
            /\ UNCHANGED <<mode, mealVars, editorVars>>
       ELSE LET copy == DeepCopy(meals[name], heap)
            IN  EnterEditor(name, copy.ids, copy.heap)

\* 'delete meal <name>'
DeleteMeal(name) ==
    /\ mode = "main"
    /\ UNCHANGED <<mode, catalogVars, searchVars, meal_name, editor, aggVars>>
    /\ IF name \notin DOMAIN meals
       THEN /\ out' = "meal_not_found"
            /\ UNCHANGED <<mealVars, current_meal_contents>>
       ELSE LET remaining == [n \in DOMAIN meals \ {name} |-> meals[n]]
            IN  /\ out' = "meal_deleted"
                /\ StoreObjects(remaining, <<>>, heap)
                /\ meals_file' = Dumped(remaining, heap)

\* a 'quit' that stores the working copy only under a name that has no meal yet
EditorQuitKeepingStored ==
    /\ mode = "editor"
    /\ mode' = "main"
    /\ out' = "meal_saved"
    /\ editor' = "Saved"
    /\ meal_name' = ""
    /\ LET saved == meals @@ (meal_name :> current_meal_contents)
       IN  /\ StoreObjects(saved, <<>>, heap)
           /\ meals_file' = Dumped(saved, heap)
    /\ UNCHANGED <<catalogVars, searchVars, aggVars>>

\* editor command 'quit' / 'q'
EditorQuit ==
    /\ mode = "editor"
    /\ mode' = "main"
    /\ out' = "meal_saved"
    /\ editor' = "Saved"
    /\ meal_name' = ""
    /\ LET saved == (meal_name :> current_meal_contents) @@ meals
       IN  /\ StoreObjects(saved, <<>>, heap)
           /\ meals_file' = Dumped(saved, heap)
    /\ UNCHANGED <<catalogVars, searchVars, aggVars>>

\* editor commands 'help', 'list [pattern]' and unknown ones: output only
EditorOutputOnly(msg) ==
    /\ mode = "editor"
    /\ out' = msg
    /\ UNCHANGED <<mode, catalogVars, mealVars, searchVars, editorVars, aggVars>>

\* editor command 'add' / 'a' with a wrong number of arguments
EditorAddUsage == EditorOutputOnly("editor_add_usage")

\* editor command 'add <food_name> <pieces>'
EditorAdd(food_name, pieces_arg) ==
    /\ mode = "editor"
    /\ UNCHANGED <<mode, catalogVars, searchVars, aggVars, meals_file, meal_name, editor>>
    /\ LET idx == FindLine(current_meal_contents, heap, food_name)
           id == NewId(DOMAIN heap)
           refuse(msg) == out' = msg /\ UNCHANGED <<meals, heap, current_meal_contents>>
       IN  IF food_name \notin DOMAIN foods THEN refuse("editor_food_not_found")
           ELSE IF ~pieces_arg.num THEN refuse("editor_invalid_pieces")
           ELSE IF NotPositive(pieces_arg.v) THEN refuse("editor_pieces_not_positive")
           ELSE IF idx > 0
           THEN /\ heap[current_meal_contents[idx]].quantity + pieces_arg.v <= MaxQty
                /\ StoreObjects(meals, current_meal_contents,
                                [heap EXCEPT ![current_meal_contents[idx]].quantity =
                                                 Incremented(@, pieces_arg.v)])
                /\ out' = "line_updated"
           ELSE /\ StoreObjects(meals, Append(current_meal_contents, id),
                                (id :> [food |-> food_name, quantity |-> pieces_arg.v]) @@ heap)
                /\ out' = "line_added"

\* editor command 'delete' / 'd' <food_name>
EditorDelete(food_name) ==
    /\ mode = "editor"
    /\ UNCHANGED <<mode, catalogVars, searchVars, aggVars, meals_file, meal_name, editor>>
    /\ LET kept == WithoutFood(current_meal_contents, heap, food_name)
       IN  /\ StoreObjects(meals, kept, heap)
           /\ out' = IF Len(kept) < Len(current_meal_contents)
                     THEN "line_removed" ELSE "line_not_in_meal"

\* end of input or Ctrl-C at the editor prompt: the exception leaves
\* run_meal_editor and its caller and ends the loop of run_tracker (lines 1480-1487)
EditorAbort(msg) ==
    /\ mode = "editor"
    /\ mode' = "exited"
    /\ out' = msg
    /\ editor' = "Aborted"
    /\ meal_name' = ""
    /\ StoreObjects(meals, <<>>, heap)
    /\ UNCHANGED <<catalogVars, searchVars, aggVars, meals_file>>

----------------------------------------------------------------------------
(* Python floats: binary floating point, every result rounded to the nearest *)
(* float, ties to the even significand.  The model's floats are whole        *)
(* numbers with a significand of FloatBits bits (CPython's has 53).          *)

RECURSIVE Pow2(_)
Pow2(n) == IF n = 0 THEN 1 ELSE 2 * Pow2(n - 1)

Abs(x) == IF x < 0 THEN -x ELSE x

\* the distance between neighbouring floats at magnitude a
RECURSIVE Spacing(_, _)
Spacing(a, q) == IF a < Pow2(FloatBits) * q THEN q ELSE Spacing(a, 2 * q)

\* the float that represents the exact result x of an operation
RoundToFloat(x) ==
    LET a == Abs(x)
        q == Spacing(a, 1)
        below == a - (a % q)
        nearest == IF 2 * (a % q) < q THEN below
                   ELSE IF 2 * (a % q) > q THEN below + q
                   ELSE IF (below \div q) % 2 = 0 THEN below ELSE below + q
    IN  IF x < 0 THEN -nearest ELSE nearest

\* a + b, a - b and a * b on floats
FloatAdd(a, b) == RoundToFloat(a + b)
\* b - a in place of a - b
FloatSubReversed(a, b) == RoundToFloat(b - a)
FloatSub(a, b) == RoundToFloat(a - b)
\* the value without the quantity
FloatMulWithoutQuantity(a, b) == RoundToFloat(a)
FloatMul(a, b) == RoundToFloat(a * b)

----------------------------------------------------------------------------
(* calculate_meal_nutrition, calculate_day_nutrition, display_day_log *)

\* a loop that ends at the first line whose food is not in the catalog
RECURSIVE MealLoopStopping(_, _, _)
MealLoopStopping(meal_contents, foods_data, total) ==
    IF meal_contents = <<>> THEN total
    ELSE LET item == Head(meal_contents)
             plus(n) == FloatAdd(total[n], FloatMul(foods_data[item.food][n], item.quantity))
         IN  IF item.food \in DOMAIN foods_data
             THEN MealLoopStopping(Tail(meal_contents), foods_data,
                                   Profile(plus("calories"), plus("fat"), plus("carbs"),
                                           plus("protein")))
             ELSE total

\* the loop of calculate_meal_nutrition from the totals reached so far
RECURSIVE MealLoop(_, _, _)
MealLoop(meal_contents, foods_data, total) ==
    IF meal_contents = <<>> THEN total
    ELSE LET item == Head(meal_contents)
             plus(n) == FloatAdd(total[n], FloatMul(foods_data[item.food][n], item.quantity))
         IN  MealLoop(Tail(meal_contents), foods_data,
                      IF item.food \in DOMAIN foods_data
                      THEN Profile(plus("calories"), plus("fat"), plus("carbs"), plus("protein"))
                      ELSE total)

calculate_meal_nutrition(meal_contents, foods_data) ==
    MealLoop(meal_contents, foods_data, ZeroProfile)

\* total += amount where the program has total -= amount
AddedToTotal(total, amount) == FloatAdd(total, amount)

\* total -= amount of the activity branch
SubtractedFromTotal(total, amount) == FloatSub(total, amount)

\* the loop of calculate_day_nutrition from the totals reached so far
RECURSIVE DayLoop(_, _, _)
DayLoop(entries, app_data, total) ==
    IF entries = <<>> THEN total
    ELSE LET entry == Head(entries)
             quantity == entry.quantity
             meal_nutrition ==
                 calculate_meal_nutrition(app_data.meals[entry.name], app_data.foods)
             food(n) == FloatAdd(total[n], FloatMul(app_data.foods[entry.name][n], quantity))
             meal(n) == FloatAdd(total[n], FloatMul(meal_nutrition[n], quantity))
             activity(n) ==
                 SubtractedFromTotal(total[n],
                                     FloatMul(app_data.activities[entry.name][n], quantity))
         IN  DayLoop(Tail(entries), app_data,
                     CASE entry.type = "food" /\ entry.name \in DOMAIN app_data.foods ->
                              Profile(food("calories"), food("fat"), food("carbs"),
                                      food("protein"))
                       [] entry.type = "meal" /\ entry.name \in DOMAIN app_data.meals ->
                              Profile(meal("calories"), meal("fat"), meal("carbs"),
                                      meal("protein"))
                       [] entry.type = "activity"
                              /\ entry.name \in DOMAIN app_data.activities ->
                              Profile(activity("calories"), activity("fat"),
                                      activity("carbs"), activity("protein"))
                       [] OTHER -> total)

calculate_day_nutrition(entries, app_data) == DayLoop(entries, app_data, ZeroProfile)

\* no summary has been made
NoSummary ==
    [num_days |-> 0, days_with_entries |-> 0, total |-> ZeroProfile, averaged |-> FALSE,
     average |-> ZeroProfile]

\* app_data as the aggregation functions read it: meals are lists of line dictionaries
AppData == [foods |-> foods, meals |-> Dumped(meals, heap), activities |-> activities]

\* 'view day' for the day of day_entries: display_day_log
ViewDay ==
    /\ mode = "main"
    /\ IF day_entries = <<>>
       THEN /\ out' = "no_entries_logged"
            /\ UNCHANGED total_nutrition
       ELSE /\ out' = "day_totals"
            /\ total_nutrition' = calculate_day_nutrition(day_entries, AppData)
    /\ UNCHANGED <<mode, catalogVars, mealVars, searchVars, editorVars, day_entries,
                   diary_file, earlier_days, summary, today_in_diary, logVars>>

\* the meal of the last row of handle_list_meals, which lists by sorted name
LastListed(ms) ==
    CHOOSE n \in DOMAIN ms :
        \A k \in DOMAIN ms : PositionIn(MealNameOrder, k) <= PositionIn(MealNameOrder, n)

\* 'list meals': total_nutrition holds the totals of the row added last
ListMeals ==
    /\ mode = "main"
    /\ IF DOMAIN meals = {}
       THEN /\ out' = "no_meal_definitions"
            /\ UNCHANGED total_nutrition
       ELSE /\ out' = "meal_totals"
            /\ total_nutrition' =
                   calculate_meal_nutrition(Lines(meals[LastListed(meals)], heap), foods)
    /\ UNCHANGED <<mode, catalogVars, mealVars, searchVars, editorVars, day_entries,
                   diary_file, earlier_days, summary, today_in_diary, logVars>>

----------------------------------------------------------------------------
(* handle_log_food, handle_log_meal, handle_log_activity, handle_remove_log *)

MaxLogged == 2

\* the order sorted() gives the names of the model
NameOrder ==
    <<"apple", "banana", "cherry", "feast", "m", "mint", "n", "running", "toast", "x", "y">>

\* the names of sorted(catalog.items(), key=lambda x: x[0])
SortedNames(catalog) ==
    LET Present(n) == n \in DOMAIN catalog
    IN  SelectSeq(NameOrder, Present)

\* an entry that also keeps the nutrient values the food has when it is logged
LoggedEntryWithSnapshot(type, name, quantity) ==
    [type |-> type, name |-> name, quantity |-> quantity,
     calories |-> IF type = "food" /\ name \in DOMAIN foods THEN foods[name].calories ELSE 0]

\* the dictionary the log handlers append to the day
LoggedEntry(type, name, quantity) == [type |-> type, name |-> name, quantity |-> quantity]

\* the index typed at the pager prompt, a string of digits
LogIndexArgs == 0..2

\* what is typed at the quantity prompt: a number of pieces, zero, or no number
LogQuantityArgs ==
    {[num |-> TRUE, v |-> MaxQty], [num |-> TRUE, v |-> 0], [num |-> FALSE, v |-> 0]}

\* a log session from its first prompt to its end: commands that are refused,
\* 'n' and 'p' print and prompt again, so the session ends with a selection
\* and a quantity that are accepted, or with 'q'
Log(type, catalog, index, quantity_arg) ==
    /\ mode = "main"
    /\ UNCHANGED <<mode, catalogVars, mealVars, searchVars, editorVars, earlier_days,
                   total_nutrition, summary, logVars>>
    /\ IF DOMAIN catalog = {}
       THEN out' = "log_nothing_to_select"
            /\ UNCHANGED <<day_entries, diary_file, today_in_diary>>
       ELSE IF \/ index \notin 1..Len(SortedNames(catalog))
               \/ ~quantity_arg.num
               \/ quantity_arg.v <= 0
       THEN out' = "log_quit" /\ UNCHANGED <<day_entries, diary_file, today_in_diary>>
       ELSE /\ Len(day_entries) < MaxLogged
            /\ out' = "logged"
            /\ today_in_diary' = TRUE
            /\ day_entries' =
                   Append(day_entries,
                          LoggedEntry(type, SortedNames(catalog)[index], quantity_arg.v))
            /\ diary_file' = day_entries'

\* 'log food'
LogFood(index, quantity_arg) == Log("food", foods, index, quantity_arg)

\* 'log meal'
LogMeal(index, quantity_arg) == Log("meal", meals, index, quantity_arg)

\* 'log activity'
LogActivity(index, quantity_arg) == Log("activity", activities, index, quantity_arg)

\* list.pop() without the index: the last entry goes
PoppedLast(entries, index) == SubSeq(entries, 1, Len(entries) - 1)

\* the list after list.pop(index), index counted from 0
Popped(entries, index) ==
    SubSeq(entries, 1, index) \o SubSeq(entries, index + 2, Len(entries))

\* 'remove log' without an index: the day is displayed, then the usage
RemoveLogUsage ==
    /\ mode = "main"
    /\ UNCHANGED <<mode, catalogVars, mealVars, searchVars, editorVars, earlier_days, summary,
                   today_in_diary, logVars, day_entries, diary_file>>
    /\ IF ~today_in_diary \/ day_entries = <<>>
       THEN out' = "no_entries_to_remove" /\ UNCHANGED total_nutrition
       ELSE /\ total_nutrition' = calculate_day_nutrition(day_entries, AppData)
            /\ out' = "remove_usage"

\* a date that is dropped from the diary with its last entry
KeyAfterPopWhileEntries(entries) == entries # <<>>

\* is the date a key of the diary after the pop from its list, which is now
\* 'entries': the pop changes the list and nothing deletes a key
KeyAfterPop(entries) == TRUE

\* 'remove log <index>': the day is displayed first
RemoveLog(index_arg) ==
    /\ mode = "main"
    /\ UNCHANGED <<mode, catalogVars, mealVars, searchVars, editorVars, earlier_days, summary,
                   logVars>>
    /\ IF ~today_in_diary \/ day_entries = <<>>
       THEN out' = "no_entries_to_remove"
            /\ UNCHANGED <<day_entries, diary_file, total_nutrition, today_in_diary>>
       ELSE /\ total_nutrition' = calculate_day_nutrition(day_entries, AppData)
            /\ IF ~index_arg.num
               THEN out' = "remove_invalid_index_format"
                    /\ UNCHANGED <<day_entries, diary_file, today_in_diary>>
               ELSE IF index_arg.v - 1 < 0 \/ index_arg.v - 1 >= Len(day_entries)
               THEN out' = "remove_invalid_index"
                    /\ UNCHANGED <<day_entries, diary_file, today_in_diary>>
               ELSE /\ out' = "log_removed"
                    /\ day_entries' = Popped(day_entries, index_arg.v - 1)
                    /\ today_in_diary' = KeyAfterPop(day_entries')
                    /\ diary_file' = day_entries'

----------------------------------------------------------------------------
(* handle_log_food, handle_log_meal, handle_log_activity: the pager, command by command *)

\* items_per_page of the three handlers
items_per_page == 2

\* the catalog a log handler pages through
LogCatalog(type) ==
    CASE type = "food" -> foods
      [] type = "meal" -> meals
      [] type = "activity" -> activities
      [] OTHER -> EmptyMap

\* food_list, meal_list, activity_list
LogList(type) == SortedNames(LogCatalog(type))

\* total_pages = (len(list) + items_per_page - 1) // items_per_page
LogTotalPages(list) == (Len(list) + items_per_page - 1) \div items_per_page

\* rows numbered from 1 on every page: enumerate(page_items, start=1)
LogRowsNumberedPerPage(list, page) ==
    LET start_index == (page - 1) * items_per_page
        end_index == Min(start_index + items_per_page, Len(list))
    IN  [k \in 1..(IF end_index > start_index THEN end_index - start_index ELSE 0) |->
             [index |-> k, name |-> list[start_index + k]]]

\* the rows of the table of a page: enumerate(page_items, start=start_index + 1)
\* over list[start_index:end_index]
LogRows(list, page) ==
    LET start_index == (page - 1) * items_per_page
        end_index == Min(start_index + items_per_page, Len(list))
    IN  [k \in 1..(IF end_index > start_index THEN end_index - start_index ELSE 0) |->
             [index |-> start_index + k, name |-> list[start_index + k]]]

\* 0 <= index < len(list)
IndexInList(index, list) == 0 <= index /\ index < Len(list)

\* what is typed at the pager prompt, other than 'q', 'n' and 'p': a string of
\* digits or anything else
LogCommandArgs ==
    {[num |-> TRUE, v |-> i] : i \in 0..4} \cup {[num |-> FALSE, v |-> 0]}

\* 'log food', 'log meal', 'log activity' up to the first prompt of the pager
StartLog(type) ==
    /\ mode = "main"
    /\ UNCHANGED <<catalogVars, mealVars, searchVars, editorVars, day_entries, diary_file,
                   earlier_days, total_nutrition, summary, today_in_diary>>
    /\ IF DOMAIN LogCatalog(type) = {}
       THEN out' = "log_nothing_to_select" /\ UNCHANGED <<mode, logVars>>
       ELSE /\ mode' = "log"
            /\ out' = "log_started"
            /\ log_type' = type
            /\ log_page' = 1
            /\ log_rows' = LogRows(LogList(type), 1)

\* 'q' at the pager prompt
LogQuit ==
    /\ mode = "log"
    /\ mode' = "main"
    /\ out' = "log_quit"
    /\ log_type' = "none"
    /\ log_page' = 0
    /\ log_rows' = <<>>
    /\ UNCHANGED <<catalogVars, mealVars, searchVars, editorVars, day_entries, diary_file,
                   earlier_days, total_nutrition, summary, today_in_diary>>

\* 'n' at the pager prompt, and the table of the next turn of the loop
LogNext ==
    /\ mode = "log"
    /\ IF log_page < LogTotalPages(LogList(log_type))
       THEN out' = "log_page" /\ log_page' = log_page + 1
       ELSE out' = "log_already_last" /\ UNCHANGED log_page
    /\ log_rows' = LogRows(LogList(log_type), log_page')
    /\ UNCHANGED <<mode, log_type, catalogVars, mealVars, searchVars, editorVars, day_entries,
                   diary_file, earlier_days, total_nutrition, summary, today_in_diary>>

\* 'p' at the pager prompt, and the table of the next turn of the loop
LogPrev ==
    /\ mode = "log"
    /\ IF log_page > 1
       THEN out' = "log_page" /\ log_page' = log_page - 1
       ELSE out' = "log_already_first" /\ UNCHANGED log_page
    /\ log_rows' = LogRows(LogList(log_type), log_page')
    /\ UNCHANGED <<mode, log_type, catalogVars, mealVars, searchVars, editorVars, day_entries,
                   diary_file, earlier_days, total_nutrition, summary, today_in_diary>>

\* a test that lets a quantity of zero pass
LogNotPositiveBelowZero(quantity) == quantity < 0

\* quantity <= 0
LogNotPositive(quantity) == quantity <= 0

\* any other command at the pager prompt, with the answer to the quantity
\* prompt that follows an index the handler accepts
LogSelect(command_arg, quantity_arg) ==
    /\ mode = "log"
    /\ UNCHANGED <<catalogVars, mealVars, searchVars, editorVars, earlier_days,
                   total_nutrition, summary>>
    /\ LET list == LogList(log_type)
           index == command_arg.v - 1
           Again(msg) ==
               /\ out' = msg
               /\ log_rows' = LogRows(list, log_page)
               /\ UNCHANGED <<mode, log_type, log_page, day_entries, diary_file,
                              today_in_diary>>
       IN  IF ~command_arg.num THEN Again("log_unknown_command")
           ELSE IF ~IndexInList(index, list) THEN Again("log_invalid_index")
           ELSE IF ~quantity_arg.num THEN Again("log_invalid_quantity")
           ELSE IF LogNotPositive(quantity_arg.v) THEN Again("log_quantity_not_positive")
           ELSE /\ Len(day_entries) < MaxLogged
                /\ out' = "logged"
                /\ today_in_diary' = TRUE
                /\ day_entries' =
                       Append(day_entries, LoggedEntry(log_type, list[index + 1], quantity_arg.v))
                /\ diary_file' = day_entries'
                /\ mode' = "main"
                /\ log_type' = "none"
                /\ log_page' = 0
                /\ log_rows' = <<>>

\* Ctrl-D or Ctrl-C at a prompt of the pager: the exception ends run_tracker
LogAbort(msg) ==
    /\ mode = "log"
    /\ mode' = "exited"
    /\ out' = msg
    /\ UNCHANGED <<catalogVars, mealVars, searchVars, editorVars, aggVars>>

\* 'view day' without a date
handle_view_day ==
    IF ~today_in_diary
    THEN /\ mode = "main"
         /\ out' = "no_diary_entries_found"
         /\ UNCHANGED <<mode, catalogVars, mealVars, searchVars, editorVars, aggVars>>
    ELSE ViewDay

\* the empty command line: today's summary
TodaySummary ==
    /\ mode = "main"
    /\ IF today_in_diary /\ day_entries # <<>>
       THEN /\ out' = "today_summary"
            /\ total_nutrition' = calculate_day_nutrition(day_entries, AppData)
       ELSE /\ out' = "no_entries_logged_for_today"
            /\ UNCHANGED total_nutrition
    /\ UNCHANGED <<mode, catalogVars, mealVars, searchVars, editorVars, day_entries,
                   diary_file, earlier_days, summary, today_in_diary, logVars>>

----------------------------------------------------------------------------
(* handle_summary *)

\* the longest window asked for
MaxWindow == 7

\* what follows 'summary': nothing, a word that is no integer, or an integer
SummaryArgs ==
    {[given |-> TRUE, num |-> TRUE, v |-> i] : i \in {-1, 0, 1, 2, MaxWindow}}
        \cup {[given |-> TRUE, num |-> FALSE, v |-> 0], [given |-> FALSE, num |-> FALSE, v |-> 0]}

\* app_data["diary"][date_str] for the date i days before today, when
\* 'date_str in app_data["diary"] and app_data["diary"][date_str]' holds,
\* and the empty list when it does not
DayEntries(i) ==
    IF i = 0 THEN (IF today_in_diary THEN day_entries ELSE <<>>)
    ELSE IF i <= Len(earlier_days) /\ earlier_days[i].present THEN earlier_days[i].entries
    ELSE <<>>

\* the loop over range(num_days) from day i, with the counter, the sums and the
\* last day totals computed so far
RECURSIVE SummaryLoop(_, _, _)
SummaryLoop(i, num_days, acc) ==
    IF i >= num_days THEN acc
    ELSE IF DayEntries(i) # <<>>
    THEN LET day_nutrition == calculate_day_nutrition(DayEntries(i), AppData)
             plus(n) == FloatAdd(acc.total[n], day_nutrition[n])
         IN  SummaryLoop(i + 1, num_days,
                         [days_with_entries |-> acc.days_with_entries + 1,
                          total |-> Profile(plus("calories"), plus("fat"), plus("carbs"),
                                            plus("protein")),
                          last |-> day_nutrition])
    ELSE SummaryLoop(i + 1, num_days, acc)

\* a division by the length of the window
DenominatorWindow(days_with_entries, num_days) == num_days

\* what the sums are divided by
Denominator(days_with_entries, num_days) == days_with_entries

\* f"{total / d:.2f}" in hundredths: the quotient of the two floats, rounded
\* to two decimals; for d below 8 and a whole total no quotient lies halfway
\* between two hundredths, and the float nearest to the quotient rounds as the
\* quotient does
TwoDecimals(total, d) ==
    IF total < 0 THEN 0 - ((200 * Abs(total) + d) \div (2 * d))
    ELSE (200 * total + d) \div (2 * d)

\* 'summary <days>'
Summary(days_arg) ==
    /\ mode = "main"
    /\ UNCHANGED <<mode, catalogVars, mealVars, searchVars, editorVars, day_entries,
                   diary_file, earlier_days, today_in_diary, logVars>>
    /\ IF ~days_arg.given
       THEN out' = "summary_usage" /\ summary' = NoSummary /\ UNCHANGED total_nutrition
       ELSE IF ~days_arg.num
       THEN out' = "summary_invalid_days" /\ summary' = NoSummary /\ UNCHANGED total_nutrition
       ELSE IF days_arg.v <= 0
       THEN out' = "summary_not_positive" /\ summary' = NoSummary /\ UNCHANGED total_nutrition
       ELSE \E num_days \in {days_arg.v} :
            \E r \in {SummaryLoop(0, num_days,
                                  [days_with_entries |-> 0, total |-> ZeroProfile,
                                   last |-> total_nutrition])} :
            \E d \in {Denominator(r.days_with_entries, num_days)} :
                /\ total_nutrition' = r.last
                /\ IF r.days_with_entries > 0
                   THEN /\ out' = "summary_average"
                        /\ summary' =
                               [num_days |-> num_days,
                                days_with_entries |-> r.days_with_entries,
                                total |-> r.total,
                                averaged |-> TRUE,
                                average |-> Profile(TwoDecimals(r.total.calories, d),
                                                    TwoDecimals(r.total.fat, d),
                                                    TwoDecimals(r.total.carbs, d),
                                                    TwoDecimals(r.total.protein, d))]
                   ELSE /\ out' = "summary_no_entries"
                        /\ summary' =
                               [num_days |-> num_days,
                                days_with_entries |-> 0,
                                total |-> r.total,
                                averaged |-> FALSE,
                                average |-> ZeroProfile]

----------------------------------------------------------------------------
(* Initial state: run_tracker after loading empty data files *)

\* the process at the main prompt, no session open
InitIdle ==
    /\ mode = "main"
    /\ out = "welcome"
    /\ svc_products = <<>>
    /\ svc_log = NoRequests
    /\ all_products = <<>>
    /\ current_page = 1
    /\ current_filter = <<>>
    /\ total_products = 0
    /\ total_pages = 0
    /\ displayed_rows = <<>>
    /\ rendered_from = NotRendered
    /\ selected_product = NoProduct
    /\ meal_name = ""
    /\ current_meal_contents = <<>>
    /\ editor = "none"
    /\ total_nutrition = ZeroProfile
    /\ summary = NoSummary
    /\ log_type = "none"
    /\ log_page = 0
    /\ log_rows = <<>>

InitCommon ==
    /\ InitIdle
    /\ activities = EmptyMap
    /\ activities_file = EmptyMap
    /\ meals = EmptyMap
    /\ meals_file = EmptyMap
    /\ heap = EmptyMap
    /\ day_entries = <<>>
    /\ diary_file = <<>>
    /\ earlier_days = <<>>
    /\ today_in_diary = FALSE

InitSearch ==
    /\ InitCommon
    /\ foods = EmptyMap
    /\ foods_file = EmptyMap

NextSearch ==
    \/ \E results \in ResultLists, ok \in BOOLEAN : SearchFood(results, ok)
    \/ PagerQuit
    \/ \E ok \in BOOLEAN : PagerNext(ok)
    \/ PagerPrev
    \/ \E pattern \in FilterPatterns : PagerFilter(pattern)
    \/ PagerAddUsage
    \/ \E index_arg \in IndexArgs, local_name \in LocalNames, qty_arg \in QuantityArgs :
           PagerAdd(index_arg, local_name, qty_arg)
    \/ PagerUnknown
    \/ PagerEOF
    \/ PagerInterrupt

SpecSearch == InitSearch /\ [][NextSearch]_vars

\* the catalog of the meal editor's runs, as 'add food' commands leave it
MealFoods == ("apple" :> Profile(52, 1, 14, 2)) @@ ("banana" :> Profile(89, 2, 23, 3))

InitMeal ==
    /\ InitCommon
    /\ foods = MealFoods
    /\ foods_file = MealFoods

NextMeal ==
    \/ \E name \in MealNames : AddMeal(name)
    \/ \E name \in MealNames : EditMeal(name)
    \/ \E name \in MealNames : DeleteMeal(name)
    \/ EditorQuit
    \/ \E msg \in {"editor_help", "editor_list", "editor_unknown"} : EditorOutputOnly(msg)
    \/ EditorAddUsage
    \/ \E food_name \in FoodNames, pieces_arg \in PiecesArgs : EditorAdd(food_name, pieces_arg)
    \/ \E food_name \in FoodNames : EditorDelete(food_name)
    \/ \E msg \in {"exit_eof", "exit_interrupt"} : EditorAbort(msg)

SpecMeal == InitMeal /\ [][NextMeal]_vars

----------------------------------------------------------------------------
(* The specification with longer result lists, for the paging of the browser *)

LongResultLists ==
    UNION {{[i \in 1..n |-> MkProduct(i, k[i])] : k \in [1..n -> {"Ab", "ba"}]} :
               n \in (MaxCount + 1)..MaxLongCount}

NextPaging ==
    \/ \E results \in LongResultLists, ok \in BOOLEAN : SearchFood(results, ok)
    \/ PagerQuit
    \/ \E ok \in BOOLEAN : PagerNext(ok)
    \/ PagerPrev
    \/ \E pattern \in {<<>>, <<"a", "*">>} : PagerFilter(pattern)
    \/ PagerAddUsage
    \/ \E index_arg \in IndexArgs, local_name \in LocalNames :
           PagerAdd(index_arg, local_name, [given |-> FALSE, num |-> FALSE, grams |-> 0])
    \/ PagerUnknown
    \/ PagerEOF
    \/ PagerInterrupt

SpecPaging == InitSearch /\ [][NextPaging]_vars

----------------------------------------------------------------------------
(* The specification of the day totals: run_tracker after loading data files *)
(* with a catalog, a meal and a diary day                                    *)

DayFoods ==
    ("toast" :> Profile(200, 2, 30, 6)) @@ ("feast" :> Profile(Pow2(FloatBits), 16, 40, 20))
        @@ ("mint" :> Profile(1, 0, 1, 0))

DayActivities == "running" :> Profile(300, 0, 0, 0)

\* the meal "m": toast, a food that is no longer in the catalog, and two mints
DayMealLines ==
    <<[food |-> "toast", quantity |-> 1], [food |-> "cherry", quantity |-> 1],
      [food |-> "mint", quantity |-> 2]>>

\* the entries a diary day may hold; "cherry", "ghost" and "idle" name nothing
DiaryEntries ==
    {[type |-> t, name |-> n, quantity |-> q] :
        t \in {"food"}, n \in {"toast", "feast", "mint", "cherry"}, q \in 1..MaxQty}
    \cup {[type |-> t, name |-> n, quantity |-> q] :
        t \in {"meal"}, n \in {"m", "ghost"}, q \in 1..MaxQty}
    \cup {[type |-> t, name |-> n, quantity |-> q] :
        t \in {"activity"}, n \in {"running", "idle"}, q \in 1..MaxQty}

DayEntryLists == UNION {[1..n -> DiaryEntries] : n \in 0..MaxEntries}

InitAgg ==
    /\ InitIdle
    /\ foods = DayFoods
    /\ foods_file = DayFoods
    /\ activities = DayActivities
    /\ activities_file = DayActivities
    /\ meals = ("m" :> <<1, 2, 3>>)
    /\ heap = DayMealLines
    /\ meals_file = ("m" :> DayMealLines)
    /\ day_entries \in DayEntryLists
    /\ diary_file = day_entries
    /\ earlier_days = <<>>
    /\ today_in_diary = (day_entries # <<>>)

NextAgg == ViewDay

SpecAgg == InitAgg /\ [][NextAgg]_vars

----------------------------------------------------------------------------
(* The specification of the meal totals: run_tracker after loading data files *)
(* with a catalog and one meal                                               *)

MealTotalFoods == MealFoods @@ DayFoods

\* the lines meals.yaml may hold for a meal; "cherry" is not in the catalog
MealLineLists ==
    UNION {[1..n -> {[food |-> f, quantity |-> q] :
                         f \in {"apple", "banana", "feast", "mint", "cherry"},
                         q \in 1..MaxQty}] : n \in 0..MaxEntries}

InitMealTotal ==
    /\ InitIdle
    /\ foods = MealTotalFoods
    /\ foods_file = MealTotalFoods
    /\ activities = EmptyMap
    /\ activities_file = EmptyMap
    /\ day_entries = <<>>
    /\ diary_file = <<>>
    /\ earlier_days = <<>>
    /\ today_in_diary = FALSE
    /\ heap \in MealLineLists
    /\ meals = ("m" :> [i \in 1..Len(heap) |-> i])
    /\ meals_file = Dumped(meals, heap)

NextMealTotal == ListMeals

SpecMealTotal == InitMealTotal /\ [][NextMealTotal]_vars

----------------------------------------------------------------------------
(* The specification of the catalog commands, with imports from the search *)

\* the result list of the one query of this specification
CatalogResultLists == {<<MkProduct(1, "Ab")>>}

NextCatalog ==
    \/ \E name \in CatalogNames, profile_arg \in ProfileArgs : AddFood(name, profile_arg)
    \/ \E name \in CatalogNames : DeleteFood(name)
    \/ \E name \in CatalogNames, profile_arg \in ProfileArgs : AddActivity(name, profile_arg)
    \/ \E name \in CatalogNames : DeleteActivity(name)
    \/ \E name \in CatalogNames, profile_arg \in ProfileArgs : EditActivity(name, profile_arg)
    \/ \E results \in CatalogResultLists, ok \in BOOLEAN : SearchFood(results, ok)
    \/ \E index_arg \in IndexArgs, local_name \in LocalNames, qty_arg \in QuantityArgs :
           PagerAdd(index_arg, local_name, qty_arg)
    \/ PagerQuit

SpecCatalog == InitSearch /\ [][NextCatalog]_vars

\* the food commands on a store that may fail
NextPersist ==
    \/ \E name \in FoodNames, profile_arg \in ProfileArgs : AddFood(name, profile_arg)
    \/ \E name \in FoodNames, profile_arg \in ProfileArgs, failure \in SaveFailures :
           AddFoodSaveFailing(name, profile_arg, failure)
    \/ \E name \in FoodNames : DeleteFood(name)

SpecPersist == InitSearch /\ [][NextPersist]_vars

----------------------------------------------------------------------------
(* The specification of a day of logging while catalogs and a meal change *)

NextDiary ==
    \/ \E profile_arg \in ProfileArgs : AddFood("apple", profile_arg)
    \/ DeleteFood("apple")
    \/ \E profile_arg \in ProfileArgs : AddActivity("running", profile_arg)
    \/ DeleteActivity("running")
    \/ \E profile_arg \in ProfileArgs : EditActivity("running", profile_arg)
    \/ AddMeal("m")
    \/ EditMeal("m")
    \/ DeleteMeal("m")
    \/ EditorAdd("apple", [num |-> TRUE, v |-> 1])
    \/ EditorDelete("apple")
    \/ EditorQuit
    \/ \E index \in LogIndexArgs, quantity_arg \in LogQuantityArgs : LogFood(index, quantity_arg)
    \/ \E index \in LogIndexArgs, quantity_arg \in LogQuantityArgs : LogMeal(index, quantity_arg)
    \/ \E index \in LogIndexArgs, quantity_arg \in LogQuantityArgs : LogActivity(index, quantity_arg)
    \/ \E index_arg \in IndexArgs : RemoveLog(index_arg)
    \/ ViewDay

SpecDiary == InitSearch /\ [][NextDiary]_vars

----------------------------------------------------------------------------
(* The specification of the summaries over a diary of several days *)

\* the most days before today the diary file speaks of
MaxEarlier == 2

SummaryActivities == "running" :> Profile(100, 0, 0, 0)

\* the entry lists of the days of the diary file
SummaryEntryLists ==
    {<<[type |-> "food", name |-> "apple", quantity |-> 1]>>,
     <<[type |-> "food", name |-> "banana", quantity |-> 2],
       [type |-> "activity", name |-> "running", quantity |-> 1]>>}

\* a date of the diary file: absent, with an empty list, or with entries
SummaryDays ==
    {[present |-> FALSE, entries |-> <<>>], [present |-> TRUE, entries |-> <<>>]}
        \cup {[present |-> TRUE, entries |-> l] : l \in SummaryEntryLists}

InitSummary ==
    /\ InitIdle
    /\ foods = MealFoods
    /\ foods_file = MealFoods
    /\ activities = SummaryActivities
    /\ activities_file = SummaryActivities
    /\ meals = EmptyMap
    /\ meals_file = EmptyMap
    /\ heap = EmptyMap
    /\ day_entries \in {<<>>} \cup SummaryEntryLists
    /\ diary_file = day_entries
    /\ earlier_days \in UNION {[1..n -> SummaryDays] : n \in 0..MaxEarlier}
    /\ today_in_diary \in {TRUE, day_entries # <<>>}

NextSummary ==
    \/ \E days_arg \in SummaryArgs : Summary(days_arg)
    \/ \E index \in LogIndexArgs, quantity_arg \in LogQuantityArgs : LogFood(index, quantity_arg)

SpecSummary == InitSummary /\ [][NextSummary]_vars

\* the commands that read the diary, and 'remove log'
NextReaders ==
    \/ \E days_arg \in SummaryArgs : Summary(days_arg)
    \/ handle_view_day
    \/ TodaySummary
    \/ \E index_arg \in IndexArgs : RemoveLog(index_arg)
    \/ RemoveLogUsage

SpecReaders == InitSummary /\ [][NextReaders]_vars

----------------------------------------------------------------------------
(* The specification of the log handlers, command by command *)

\* the catalogs of the runs of the log handlers: three foods on two pages,
\* an empty meal and an activity
LogFoods == MealFoods @@ ("mint" :> Profile(1, 0, 1, 0))

LogMeals == "m" :> <<>>

InitLog ==
    /\ InitIdle
    /\ foods = LogFoods
    /\ foods_file = LogFoods
    /\ activities = DayActivities
    /\ activities_file = DayActivities
    /\ meals = LogMeals
    /\ meals_file = LogMeals
    /\ heap = EmptyMap
    /\ day_entries = <<>>
    /\ diary_file = <<>>
    /\ earlier_days \in {<<>>, <<[present |-> TRUE,
                                  entries |-> <<[type |-> "food", name |-> "apple",
                                                 quantity |-> 1]>>]>>}
    /\ today_in_diary = FALSE

NextLog ==
    \/ \E type \in {"food", "meal", "activity"} : StartLog(type)
    \/ LogQuit
    \/ LogNext
    \/ LogPrev
    \/ \E command_arg \in LogCommandArgs, quantity_arg \in LogQuantityArgs :
           LogSelect(command_arg, quantity_arg)
    \/ \E msg \in {"exit_eof", "exit_interrupt"} : LogAbort(msg)
    \/ \E index_arg \in IndexArgs : RemoveLog(index_arg)
    \/ RemoveLogUsage
    \/ handle_view_day
    \/ TodaySummary
    \/ DeleteFood("mint")
    \/ DeleteActivity("running")

SpecLog == InitLog /\ [][NextLog]_vars

\* the log handlers and the meal editor, which create the entries and the lines
NextEntries ==
    \/ \E type \in {"food", "meal", "activity"} : StartLog(type)
    \/ LogQuit
    \/ LogNext
    \/ LogPrev
    \/ \E command_arg \in LogCommandArgs, quantity_arg \in LogQuantityArgs :
           LogSelect(command_arg, quantity_arg)
    \/ AddMeal("n")
    \/ EditMeal("m")
    \/ \E food_name \in {"apple", "cherry"}, pieces_arg \in PiecesArgs :
           EditorAdd(food_name, pieces_arg)
    \/ EditorDelete("apple")
    \/ EditorQuit
    \/ DeleteFood("mint")

SpecEntries == InitLog /\ [][NextEntries]_vars

----------------------------------------------------------------------------
(* Properties of the Remote Search Browser *)

IsPrefix(a, b) == Len(a) <= Len(b) /\ SubSeq(b, 1, Len(a)) = a

\* all four nutrient fields hold a number
HasAllNutrients(r) ==
    /\ r.energy_kcal_100g.kind = "num"
    /\ r.fat_100g.kind = "num"
    /\ r.carbohydrates_100g.kind = "num"
    /\ r.proteins_100g.kind = "num"

\* case-insensitive glob match of a record's name; the empty pattern matches everything
NameMatches(r, pattern) == pattern = <<>> \/ FnMatch(Lower(r.product_name), pattern)

\* the displayable set as section 4.3 of the specification states it: the
\* fixed-size slice of the page, without the incomplete records, then
\* without the records the pattern does not match
Displayable(fetched, page, pattern) ==
    LET first == (page - 1) * SEARCH_PAGE_SIZE
        n == IF Len(fetched) - first < SEARCH_PAGE_SIZE
             THEN (IF Len(fetched) > first THEN Len(fetched) - first ELSE 0)
             ELSE SEARCH_PAGE_SIZE
        slice == [i \in 1..n |-> fetched[first + i]]
        Matching(r) == NameMatches(r, pattern)
    IN  SelectSeq(SelectSeq(slice, HasAllNutrients), Matching)

\* the well-formed 'a' commands whose index is one of 1..K, K the size of the
\* displayable set of the current state
ValidIndexArgs ==
    {a \in IndexArgs :
        a.num /\ a.v \in 1..Len(Displayable(all_products, current_page, current_filter))}

WellFormedQuantityArgs == {q \in QuantityArgs : ~(q.given /\ ~q.num)}

\* C1: a select with displayIndex in 1..K is never rejected as an invalid
\* index, and the record it imports is the displayIndex-th element of the
\* displayable set of the state it is issued in.
C1_SelectImportsDisplayed ==
    [][mode = "search" =>
       \A index_arg \in ValidIndexArgs, local_name \in LocalNames,
          qty_arg \in WellFormedQuantityArgs :
          PagerAdd(index_arg, local_name, qty_arg)
          => LET d == Displayable(all_products, current_page, current_filter)[index_arg.v]
             IN  /\ out' \in {"added_from_search", "already_exists"}
                 /\ out' = "added_from_search"
                    => /\ selected_product' = d
                       /\ local_name \in DOMAIN foods'
                       /\ foods'[local_name].calories
                              = (d.energy_kcal_100g.v * QuantityGrams(qty_arg)) \div 100
                       /\ foods'[local_name].fat
                              = (d.fat_100g.v * QuantityGrams(qty_arg)) \div 100]_vars

\* a record was imported through a filter, and it is not the first record of the page's slice
C1_Witness ==
    /\ mode = "search"
    /\ out = "added_from_search"
    /\ current_filter # <<>>
    /\ Len(CurrentPageProducts(all_products, current_page)) = 2
    /\ selected_product = CurrentPageProducts(all_products, current_page)[2]

\* C2: each page number is delivered by the search service at most once in a session.
C2_NoPageFetchedTwice == \A p \in Pages : svc_log[p].delivered <= 1

\* C3: a request for page N > 1 is only sent when page N-1 has been delivered,
\* and during a session the retained record sequence is only ever extended.
C3_InOrderAndGrowing ==
    [][/\ \A p \in Pages :
              (/\ p > 1
               /\ svc_log'[p].requested
               /\ ~svc_log[p].requested \/ svc_log'[p].delivered > svc_log[p].delivered)
              => svc_log[p - 1].delivered >= 1
       /\ (mode = "search" /\ mode' = "search") => IsPrefix(all_products, all_products')]_vars

\* the third page has been fetched
C3_Witness ==
    /\ mode = "search"
    /\ svc_log[3].delivered >= 1
    /\ Len(all_products) > 2 * SEARCH_PAGE_SIZE

\* C4: a select whose localName is already in the Food Catalog leaves the
\* session browsing, on the same page, with the same filter and records.
C4_DuplicateSelectKeepsSession ==
    [][mode = "search" =>
       \A index_arg \in ValidIndexArgs, local_name \in LocalNames \cap DOMAIN foods,
          qty_arg \in WellFormedQuantityArgs :
          PagerAdd(index_arg, local_name, qty_arg)
          => /\ mode' = "search"
             /\ UNCHANGED <<current_page, current_filter, all_products>>]_vars

\* C5: a select whose localName is already in the Food Catalog changes
\* neither the catalog in memory nor the persisted one.
C5_DuplicateSelectNoMutation ==
    [][mode = "search" =>
       \A index_arg \in ValidIndexArgs, local_name \in LocalNames \cap DOMAIN foods,
          qty_arg \in WellFormedQuantityArgs :
          PagerAdd(index_arg, local_name, qty_arg)
          => /\ foods' = foods
             /\ foods_file' = foods_file]_vars

\* a select was refused because its local name exists
C5_Witness ==
    /\ out = "already_exists"
    /\ "x" \in DOMAIN foods
    /\ foods_file = foods

----------------------------------------------------------------------------
(* Properties of the Meal Composer *)

\* no two lines of a meal name the same food
NoDuplicateFood(lines) ==
    \A i, j \in 1..Len(lines) : lines[i].food = lines[j].food => i = j

\* the editor's working copy, by value
WorkingLines == Lines(current_meal_contents, heap)

\* the 'add' commands the editor accepts in the current state
AcceptedFoods == FoodNames \cap DOMAIN foods

\* C6: whenever an editing session ends, by quit or by end-of-input or
\* interrupt at its prompt, the meal stored and persisted under the session's
\* name is the session's final working copy.
C6_EveryExitPersists ==
    [][(editor = "Editing" /\ editor' # "Editing")
       => /\ meal_name \in DOMAIN meals'
          /\ Lines(meals'[meal_name], heap') = WorkingLines
          /\ meal_name \in DOMAIN meals_file'
          /\ meals_file'[meal_name] = WorkingLines]_vars

\* C7: a command of a session that stays in Editing changes neither the stored
\* meals nor their persisted copy, and afterwards the working copy shares no
\* line object with a stored meal.
C7_EditingLeavesStoredMeals ==
    [][(editor = "Editing" /\ editor' = "Editing")
       => /\ Dumped(meals', heap') = Dumped(meals, heap)
          /\ meals_file' = meals_file
          /\ \A n \in DOMAIN meals' :
                 Refs(current_meal_contents') \cap Refs(meals'[n]) = {}]_vars

\* an add merged into a line of a meal opened with 'edit meal', and the
\* stored line of that food still has its old quantity
C7_Witness ==
    /\ mode = "editor"
    /\ out = "line_updated"
    /\ meal_name \in DOMAIN meals
    /\ \E i \in 1..Len(WorkingLines), j \in 1..Len(meals[meal_name]) :
           /\ WorkingLines[i].food = heap[meals[meal_name][j]].food
           /\ WorkingLines[i].quantity > heap[meals[meal_name][j]].quantity

\* C8: the working copy, every stored meal and every persisted meal have at
\* most one line per food.
C8_OneLinePerFood ==
    /\ NoDuplicateFood(WorkingLines)
    /\ \A n \in DOMAIN meals : NoDuplicateFood(Lines(meals[n], heap))
    /\ \A n \in DOMAIN meals_file : NoDuplicateFood(meals_file[n])

\* a meal of two lines, one of them merged from two adds, was stored at exit
C8_Witness ==
    /\ editor = "Saved"
    /\ out = "meal_saved"
    /\ \E n \in DOMAIN meals :
           /\ Len(meals[n]) = 2
           /\ \E i \in 1..2 : heap[meals[n][i]].quantity >= 2
           /\ meals_file[n] = Lines(meals[n], heap)

\* C9: an accepted add of a food that has a line adds the pieces to that
\* line, where it is, and changes no other line, so that the food has exactly
\* one line; an accepted add of a food that has no line appends the line
\* (food, pieces) at the end.
C9_AddMergesOrAppends ==
    [][mode = "editor" =>
       \A food_name \in AcceptedFoods, pieces \in 1..MaxQty :
          EditorAdd(food_name, [num |-> TRUE, v |-> pieces])
          => LET before == WorkingLines
                 after == Lines(current_meal_contents', heap')
             IN  IF \E i \in 1..Len(before) : before[i].food = food_name
                 THEN /\ Len(after) = Len(before)
                      /\ \A i \in 1..Len(before) :
                             after[i] = IF before[i].food = food_name
                                        THEN [food |-> food_name,
                                              quantity |-> before[i].quantity + pieces]
                                        ELSE before[i]
                      /\ Cardinality({i \in 1..Len(after) : after[i].food = food_name}) = 1
                 ELSE after = Append(before, [food |-> food_name, quantity |-> pieces])]_vars

\* apple 1, banana 1, apple 1: the apple line is first and holds 2
C9_Witness ==
    /\ mode = "editor"
    /\ out = "line_updated"
    /\ WorkingLines = <<[food |-> "apple", quantity |-> 2], [food |-> "banana", quantity |-> 1]>>

----------------------------------------------------------------------------
(* Properties of the day totals *)

\* the sum of the values of a function with a finite domain, in exact arithmetic
RECURSIVE SumOf(_)
SumOf(f) ==
    IF DOMAIN f = {} THEN 0
    ELSE LET x == CHOOSE x \in DOMAIN f : TRUE
         IN  f[x] + SumOf([y \in DOMAIN f \ {x} |-> f[y]])

\* mealTotal: the sum of profile * quantity over the lines whose food resolves
MealTotal(lines, n) ==
    SumOf([i \in {i \in 1..Len(lines) : lines[i].food \in DOMAIN foods} |->
               foods[lines[i].food][n] * lines[i].quantity])

\* what an entry contributes to nutrient n of the day total
Contribution(e, n) ==
    CASE e.type = "food" /\ e.name \in DOMAIN foods -> foods[e.name][n] * e.quantity
      [] e.type = "meal" /\ e.name \in DOMAIN meals ->
             MealTotal(Lines(meals[e.name], heap), n) * e.quantity
      [] e.type = "activity" /\ e.name \in DOMAIN activities ->
             0 - activities[e.name][n] * e.quantity
      [] OTHER -> 0

DayTotal(entries, n) == SumOf([i \in 1..Len(entries) |-> Contribution(entries[i], n)])

\* no sum or product of contributions of the entries, in any order, needs rounding
NoRounding(entries) ==
    \A n \in Nutrients :
        SumOf([i \in 1..Len(entries) |-> Abs(Contribution(entries[i], n))]) <= Pow2(FloatBits)

Reorderings(k) == {f \in [1..k -> 1..k] : \A i, j \in 1..k : f[i] = f[j] => i = j}

Permuted(entries, f) == [i \in 1..Len(entries) |-> entries[f[i]]]

\* the totals shown are the sum of the contributions, in whatever order the entries are
IsOrderFreeSum ==
    /\ \A n \in Nutrients : total_nutrition[n] = DayTotal(day_entries, n)
    /\ \A f \in Reorderings(Len(day_entries)) :
           calculate_day_nutrition(Permuted(day_entries, f), AppData) = total_nutrition

\* C10 as stated: for any list of entries the day total is, per nutrient, the
\* sum of the food and meal contributions minus the activity contributions,
\* and it is the same for every permutation of the entries.
C10_DayTotalIsOrderFreeSum == out = "day_totals" => IsOrderFreeSum

\* C10: for a list of entries whose contributions add up without rounding,
\* the day total is, per nutrient, the sum of the food and meal contributions
\* minus the activity contributions, and it is the same for every
\* permutation of the entries.
C10_ExactDayTotalIsOrderFreeSum ==
    (out = "day_totals" /\ NoRounding(day_entries)) => IsOrderFreeSum

\* a food entry of 200 calories and one 'running' of 300 give -100
C10_Witness ==
    /\ out = "day_totals"
    /\ day_entries = <<[type |-> "food", name |-> "toast", quantity |-> 1],
                       [type |-> "activity", name |-> "running", quantity |-> 1]>>
    /\ NoRounding(day_entries)
    /\ total_nutrition.calories = 0 - 100

\* the entries without the i-th
Without(entries, i) == SubSeq(entries, 1, i - 1) \o SubSeq(entries, i + 1, Len(entries))

\* what the activity entry e takes from nutrient n of the day total
ActivityAmount(e, n) ==
    IF e.name \in DOMAIN activities THEN activities[e.name][n] * e.quantity ELSE 0

\* C11 as stated: the day total of a day with an activity entry is strictly
\* smaller, in each of the four nutrients, than the day total of the same
\* entries without that activity entry.
C11_ActivityLowersEveryNutrient ==
    out = "day_totals"
    => \A i \in 1..Len(day_entries) :
           day_entries[i].type = "activity"
           => \A n \in Nutrients :
                  total_nutrition[n]
                      < calculate_day_nutrition(Without(day_entries, i), AppData)[n]

\* C11: when the contributions of a day add up without rounding, its day
\* total is, per nutrient, the day total without an activity entry minus the
\* activity's profile times the entry's quantity (minus nothing when the
\* activity does not resolve), hence strictly smaller exactly in the nutrients
\* in which the activity's profile is positive.
C11_ActivityLowersByItsProfile ==
    (out = "day_totals" /\ NoRounding(day_entries))
    => \A i \in 1..Len(day_entries) :
           day_entries[i].type = "activity"
           => \A n \in Nutrients :
                  total_nutrition[n]
                      = calculate_day_nutrition(Without(day_entries, i), AppData)[n]
                            - ActivityAmount(day_entries[i], n)

\* a day with food and 'running' (300 calories, no fat): without the
\* activity the calories are higher and the fat is the same
C11_Witness ==
    /\ out = "day_totals"
    /\ NoRounding(day_entries)
    /\ \E i \in 1..Len(day_entries) :
           /\ day_entries[i].type = "activity"
           /\ day_entries[i].name = "running"
           /\ Len(day_entries) > 1
           /\ total_nutrition.calories
                  < calculate_day_nutrition(Without(day_entries, i), AppData).calories
           /\ total_nutrition.fat
                  = calculate_day_nutrition(Without(day_entries, i), AppData).fat

----------------------------------------------------------------------------
(* Properties of the meal totals *)

\* the lines of the meal whose totals 'list meals' computed last
ListedLines == Lines(meals[LastListed(meals)], heap)

\* no sum or product of contributions of the lines, in any order, needs rounding
MealNoRounding(lines) == \A n \in Nutrients : MealTotal(lines, n) <= Pow2(FloatBits)

\* the totals shown are the sum over the resolvable lines, in whatever order the lines are
IsOrderFreeMealSum ==
    /\ \A n \in Nutrients : total_nutrition[n] = MealTotal(ListedLines, n)
    /\ \A f \in Reorderings(Len(ListedLines)) :
           calculate_meal_nutrition(Permuted(ListedLines, f), foods) = total_nutrition

\* C12 as stated: for any meal the meal total is, per nutrient, the sum of
\* profile * quantity over exactly the lines whose food resolves, and is the
\* same for every reordering of the lines.
C12_MealTotalIsOrderFreeSum == out = "meal_totals" => IsOrderFreeMealSum

\* C12: for a meal whose contributions add up without rounding, the meal
\* total is, per nutrient, the sum of profile * quantity over exactly the
\* lines whose food resolves, and is the same for every reordering of the lines.
C12_ExactMealTotalIsOrderFreeSum ==
    (out = "meal_totals" /\ MealNoRounding(ListedLines)) => IsOrderFreeMealSum

\* apple (52 calories) twice and banana (89 calories) once give 193
C12_Witness ==
    /\ out = "meal_totals"
    /\ ListedLines = <<[food |-> "apple", quantity |-> 2], [food |-> "banana", quantity |-> 1]>>
    /\ MealNoRounding(ListedLines)
    /\ total_nutrition.calories = 193

----------------------------------------------------------------------------
(* Properties of the catalogs *)

\* the records of the names that a step keeps in a catalog are the same after it
KeptRecordsUnchanged(before, after) ==
    \A n \in DOMAIN before \cap DOMAIN after : after[n] = before[n]

\* C13 as stated: no step overwrites a record of the foods or activities
\* catalog in place: a name that is in a catalog before and after a step has
\* the same profile before and after it.
C13_NoOverwriteInPlace ==
    [][KeptRecordsUnchanged(foods, foods')
       /\ KeptRecordsUnchanged(activities, activities')]_vars

\* C13: no step overwrites a record of the foods catalog in place, and the
\* only step that overwrites a record of the activities catalog in place is
\* an 'edit activity' of that name.
C13_OverwriteOnlyByEditActivity ==
    [][/\ KeptRecordsUnchanged(foods, foods')
       /\ \A n \in DOMAIN activities \cap DOMAIN activities' :
              activities'[n] # activities[n]
              => \E profile_arg \in ProfileArgs : EditActivity(n, profile_arg)]_vars

\* an 'add food' and an 'add activity' of names that exist were both refused
C13_Witness ==
    /\ out \in {"food_exists", "activity_exists"}
    /\ DOMAIN foods = CatalogNames
    /\ DOMAIN activities = CatalogNames
    /\ foods_file = foods
    /\ activities_file = activities

----------------------------------------------------------------------------
(* Properties of the numbering of the Remote Search Browser *)

\* the 'a' command lines with index 1
IndexOne == [num |-> TRUE, v |-> 1]

\* the records of the current page's slice whose name matches the pattern, in
\* original order, complete or not
MatchingOnPage ==
    LET Matching(r) == NameMatches(r, current_filter)
    IN  SelectSeq(CurrentPageProducts(all_products, current_page), Matching)

\* C14 as stated: a select of index 1 with a new local name, immediately
\* after a filter was set, imports the first record of the page's slice whose
\* name matches the pattern, whenever a record of the slice matches.
C14_SelectOneImportsFirstMatching ==
    [][(mode = "search" /\ out = "filter_set") =>
       \A local_name \in LocalNames \ DOMAIN foods, qty_arg \in WellFormedQuantityArgs :
          (PagerAdd(IndexOne, local_name, qty_arg) /\ MatchingOnPage # <<>>)
          => /\ out' = "added_from_search"
             /\ selected_product' = MatchingOnPage[1]]_vars

\* C14: a select of index 1 with a new local name, immediately after a filter
\* was set, imports the first record of the page's slice that has all four
\* nutrient values and whose name matches the pattern, whenever the slice has
\* such a record, and is refused as an invalid index when it has none.
C14_SelectOneImportsFirstDisplayable ==
    [][(mode = "search" /\ out = "filter_set") =>
       \A local_name \in LocalNames \ DOMAIN foods, qty_arg \in WellFormedQuantityArgs :
          PagerAdd(IndexOne, local_name, qty_arg)
          => LET d == Displayable(all_products, current_page, current_filter)
             IN  IF d # <<>>
                 THEN /\ out' = "added_from_search"
                      /\ selected_product' = d[1]
                      /\ NameMatches(selected_product', current_filter)
                      /\ foods' = (local_name :> ImportedProfile(d[1], QuantityGrams(qty_arg)))
                                      @@ foods
                 ELSE /\ out' = "invalid_index"
                      /\ foods' = foods]_vars

\* a filter was just set that the first record of the slice, which index 1
\* referred to until then, does not match, and that the second record matches
C14_Witness ==
    /\ mode = "search"
    /\ out = "filter_set"
    /\ current_filter # <<>>
    /\ "x" \notin DOMAIN foods
    /\ Len(CurrentPageProducts(all_products, current_page)) = 2
    /\ HasAllNutrients(CurrentPageProducts(all_products, current_page)[1])
    /\ ~NameMatches(CurrentPageProducts(all_products, current_page)[1], current_filter)
    /\ Displayable(all_products, current_page, current_filter)
           = <<CurrentPageProducts(all_products, current_page)[2]>>

\* the table display_search_results shows for (fetched records, page, pattern)
ShownFor(fetched, page, pattern) == DisplayRows(CurrentPageProducts(fetched, page), pattern)

\* the list the 'a' command numbers for (fetched records, page, pattern)
SelectableFor(fetched, page, pattern) ==
    FilteredProductsOnPage(CurrentPageProducts(fetched, page), pattern)

\* C15: for the fetched records, page number and filter pattern of every
\* reachable state of a session, and for every other page number and filter
\* pattern, the table display_search_results shows is the list select numbers:
\* the same records at the same indexes, and as many; and a select of index k
\* is refused as an invalid index exactly when k is not an index of the table
\* on screen, and imports the record the table shows at k.
C15_ShownAndSelectedAgree ==
    [][mode = "search" =>
       /\ \A page \in Pages, pattern \in FilterPatterns :
              ShownFor(all_products, page, pattern) = SelectableFor(all_products, page, pattern)
       /\ displayed_rows = SelectableFor(all_products, current_page, current_filter)
       /\ \A index_arg \in {a \in IndexArgs : a.num}, local_name \in LocalNames,
             qty_arg \in WellFormedQuantityArgs :
             PagerAdd(index_arg, local_name, qty_arg)
             => /\ out' = "invalid_index" <=> index_arg.v \notin 1..Len(displayed_rows)
                /\ out' = "added_from_search" => selected_product' = displayed_rows[index_arg.v]]_vars

\* index 1 of a table that does not show the first record of the slice, which
\* lacks a nutrient value, was imported: it is the second record of the slice
C15_Witness ==
    /\ mode = "search"
    /\ out = "added_from_search"
    /\ current_filter = <<>>
    /\ Len(CurrentPageProducts(all_products, current_page)) = 2
    /\ ~HasAllNutrients(CurrentPageProducts(all_products, current_page)[1])
    /\ displayed_rows = <<CurrentPageProducts(all_products, current_page)[2]>>
    /\ selected_product = displayed_rows[1]

\* the page number, filter pattern and record sequence of the current state
CurrentView == [page |-> current_page, filter |-> current_filter, products |-> all_products]

\* C16: every select is issued in a state whose page number, filter pattern
\* and fetched record sequence are the ones the table on screen was rendered
\* from, and the state a select leaves the session in has been rendered again:
\* a second select never meets the numbering of an earlier state.
C16_SelectSeesFreshRender ==
    [][mode = "search" =>
       \A index_arg \in IndexArgs, local_name \in LocalNames, qty_arg \in QuantityArgs :
          PagerAdd(index_arg, local_name, qty_arg)
          => /\ rendered_from = CurrentView
             /\ mode' = "search" => rendered_from' = CurrentView']_vars

\* a select is issued on the second page under a filter, after a select that
\* imported a record: the table on screen is the one of this page and filter
C16_Witness ==
    /\ mode = "search"
    /\ out = "added_from_search"
    /\ "x" \in DOMAIN foods
    /\ current_page = 2
    /\ current_filter # <<>>
    /\ rendered_from = CurrentView
    /\ displayed_rows # <<>>

\* the 'a' commands whose index is a number outside 1..K, K the size of the
\* displayable set of the current state
OutOfRangeIndexArgs == {a \in IndexArgs : a.num} \ ValidIndexArgs

\* C17: a select whose displayIndex is outside 1..K, K = 0 included, is
\* refused as an invalid index and changes nothing: the Food Catalog in
\* memory and on disk, the page number, the filter pattern and the fetched
\* records are as before, the search service gets no request, and the
\* session goes on.
C17_OutOfRangeSelectChangesNothing ==
    [][mode = "search" =>
       \A index_arg \in OutOfRangeIndexArgs, local_name \in LocalNames,
          qty_arg \in WellFormedQuantityArgs :
          PagerAdd(index_arg, local_name, qty_arg)
          => /\ out' = "invalid_index"
             /\ mode' = "search"
             /\ UNCHANGED <<foods, foods_file, current_page, current_filter, all_products,
                            svc_log>>]_vars

\* a select was refused on a page that has records, none of them displayable
C17_Witness ==
    /\ mode = "search"
    /\ out = "invalid_index"
    /\ CurrentPageProducts(all_products, current_page) # <<>>
    /\ Displayable(all_products, current_page, current_filter) = <<>>
    /\ current_filter # <<>>
    /\ foods = EmptyMap

\* C18: in every reachable state every row of the table on screen, and every
\* record a display index of the current state resolves to, has all four
\* nutrient values; and a Food Catalog record a select has just created holds
\* the four values of such a record, scaled by the quantity.
C18_IncompleteNeverShownOrImported ==
    /\ \A k \in 1..Len(displayed_rows) : HasAllNutrients(displayed_rows[k])
    /\ mode = "search" =>
           LET selectable == SelectableFor(all_products, current_page, current_filter)
           IN  \A k \in 1..Len(selectable) : HasAllNutrients(selectable[k])
    /\ out = "added_from_search" =>
           /\ HasAllNutrients(selected_product)
           /\ \E local_name \in LocalNames \cap DOMAIN foods, qty_arg \in WellFormedQuantityArgs :
                  foods[local_name] = ImportedProfile(selected_product, QuantityGrams(qty_arg))

\* a record was imported from a page whose other record has the empty string
\* for its proteins and is not in the table
C18_Witness ==
    /\ mode = "search"
    /\ out = "added_from_search"
    /\ Len(CurrentPageProducts(all_products, current_page)) = 2
    /\ CurrentPageProducts(all_products, current_page)[2].proteins_100g = EmptyVal
    /\ NameMatches(CurrentPageProducts(all_products, current_page)[2], current_filter)
    /\ displayed_rows = <<CurrentPageProducts(all_products, current_page)[1]>>
    /\ selected_product = displayed_rows[1]

\* currentPageNumber = ceil(totalCount / pageSize): the page that holds the
\* last of the totalCount records
OnLastPage ==
    /\ (current_page - 1) * SEARCH_PAGE_SIZE < total_products
    /\ total_products <= current_page * SEARCH_PAGE_SIZE

\* C19: next on the last page changes neither the page number nor the
\* fetched record sequence, sends no request to the search service, and
\* leaves the session browsing with the same filter.
C19_NextOnLastPageIsNoOp ==
    [][(mode = "search" /\ OnLastPage) =>
       \A ok \in BOOLEAN :
          PagerNext(ok)
          => /\ out' = "last_page"
             /\ mode' = "search"
             /\ UNCHANGED <<current_page, all_products, svc_log, current_filter>>]_vars

\* next was refused on the third page, the last one of five records
C19_Witness ==
    /\ mode = "search"
    /\ out = "last_page"
    /\ OnLastPage
    /\ current_page = 3
    /\ Len(all_products) = 5
    /\ \A p \in 1..3 : svc_log[p].delivered = 1

\* next has a page to move to, and that page has not been fetched
NextWouldFetch ==
    /\ current_page < total_pages
    /\ MustFetch(current_page + 1, all_products)

\* C20: when the fetch that next makes fails, the page number, the filter
\* pattern and the fetched record sequence are what they were before the
\* command, the Food Catalog in memory and on disk is unchanged, and the
\* session goes on browsing, with the table of that state on screen.
C20_FailedFetchRollsBack ==
    [][(mode = "search" /\ NextWouldFetch) =>
       (PagerNext(FALSE)
        => /\ out' = "fetch_error"
           /\ svc_log'[current_page + 1].requested
           /\ svc_log'[current_page + 1].delivered = svc_log[current_page + 1].delivered
           /\ mode' = "search"
           /\ UNCHANGED <<current_page, current_filter, all_products, foods, foods_file>>
           /\ rendered_from' = CurrentView)]_vars

\* the fetch of the third page has failed, under a filter and with a record
\* imported before: the session is on the second page with two pages of records
C20_Witness ==
    /\ mode = "search"
    /\ out = "fetch_error"
    /\ current_page = 2
    /\ current_filter # <<>>
    /\ "x" \in DOMAIN foods
    /\ Len(all_products) = 2 * SEARCH_PAGE_SIZE
    /\ svc_log[3].requested
    /\ svc_log[3].delivered = 0

----------------------------------------------------------------------------
(* Properties of the page and filter commands of the Remote Search Browser *)

\* C21: prev lowers the page number by one when it is greater than 1 and
\* leaves it as it is otherwise; either way the search service gets no
\* request and the fetched record sequence and the filter pattern stay.
C21_PrevStepsBackWithoutFetch ==
    [][(mode = "search" /\ PagerPrev) =>
       /\ current_page' = (IF current_page > 1 THEN current_page - 1 ELSE current_page)
       /\ out' = (IF current_page > 1 THEN "prev" ELSE "first_page")
       /\ mode' = "search"
       /\ UNCHANGED <<svc_log, all_products, current_filter>>]_vars

\* prev has gone from the third page to the second, with all three pages fetched
C21_Witness ==
    /\ mode = "search"
    /\ out = "prev"
    /\ current_page = 2
    /\ Len(all_products) > 2 * SEARCH_PAGE_SIZE
    /\ current_filter # <<>>

\* C22: setFilter(pattern) makes pattern the filter pattern and changes
\* nothing else: the page number, the fetched record sequence and the Food
\* Catalog in memory and on disk stay, and the search service gets no request.
C22_SetFilterChangesOnlyFilter ==
    [][mode = "search" =>
       \A pattern \in FilterPatterns :
          PagerFilter(pattern)
          => /\ current_filter' = pattern
             /\ mode' = "search"
             /\ UNCHANGED <<current_page, all_products, svc_log, foods, foods_file,
                            total_products, total_pages>>]_vars

\* a filter was set on the second page, after a record was imported
C22_Witness ==
    /\ mode = "search"
    /\ out = "filter_set"
    /\ current_filter # <<>>
    /\ current_page = 2
    /\ svc_log[2].delivered >= 1
    /\ "x" \in DOMAIN foods

----------------------------------------------------------------------------
(* Properties of the import of the Remote Search Browser *)

\* quantityGrams of a select: 100 when omitted, 100 when supplied and not
\* positive, the supplied number otherwise
EffectiveGrams(qty_arg) ==
    IF qty_arg.given /\ qty_arg.grams > 0 THEN qty_arg.grams ELSE 100

\* a per-100-unit value times quantityGrams / 100
PerQuantity(val, grams) == (val.v * grams) \div 100

\* C23: a select that succeeds writes under localName the four per-100-unit
\* values of the selected record, each times quantityGrams / 100, with
\* quantityGrams 100 when omitted and when supplied and not positive; the
\* catalog gains exactly that key, every other record stays, and the file
\* holds the catalog.
C23_SelectWritesScaledRecord ==
    [][mode = "search" =>
       \A index_arg \in ValidIndexArgs, local_name \in LocalNames,
          qty_arg \in WellFormedQuantityArgs :
          (PagerAdd(index_arg, local_name, qty_arg) /\ out' = "added_from_search")
          => LET d == Displayable(all_products, current_page, current_filter)[index_arg.v]
                 g == EffectiveGrams(qty_arg)
             IN  /\ local_name \notin DOMAIN foods
                 /\ DOMAIN foods' = DOMAIN foods \cup {local_name}
                 /\ foods'[local_name] =
                        Profile(PerQuantity(d.energy_kcal_100g, g), PerQuantity(d.fat_100g, g),
                                PerQuantity(d.carbohydrates_100g, g),
                                PerQuantity(d.proteins_100g, g))
                 /\ \A n \in DOMAIN foods : foods'[n] = foods[n]
                 /\ foods_file' = foods']_vars

\* a record was imported with 200 grams into a catalog that holds another food
C23_Witness ==
    /\ mode = "search"
    /\ out = "added_from_search"
    /\ "y" \in DOMAIN foods
    /\ "x" \in DOMAIN foods
    /\ HasAllNutrients(selected_product)
    /\ foods["x"].carbs = 2 * selected_product.carbohydrates_100g.v
    /\ foods["x"].protein = 2 * selected_product.proteins_100g.v

\* the quantity tokens that are not numbers
MalformedQuantityArgs == {q \in QuantityArgs : q.given /\ ~q.num}

\* C24: a select whose quantity is not a number is refused: the Food Catalog
\* in memory and on disk, the page number, the filter pattern and the fetched
\* records stay, the search service gets no request, and the session goes on
\* browsing; with a numeric index the refusal is the one for the quantity.
C24_MalformedQuantityChangesNothing ==
    [][mode = "search" =>
       \A index_arg \in IndexArgs, local_name \in LocalNames,
          qty_arg \in MalformedQuantityArgs :
          PagerAdd(index_arg, local_name, qty_arg)
          => /\ mode' = "search"
             /\ out' = (IF index_arg.num THEN "invalid_quantity" ELSE "invalid_index_format")
             /\ UNCHANGED <<foods, foods_file, current_page, current_filter, all_products,
                            svc_log>>
             /\ rendered_from' = CurrentView]_vars

\* a select with a quantity that is not a number was refused on the second
\* page, under a filter, with a record on screen and a new local name
C24_Witness ==
    /\ mode = "search"
    /\ out = "invalid_quantity"
    /\ current_page = 2
    /\ current_filter # <<>>
    /\ displayed_rows # <<>>
    /\ foods = EmptyMap

----------------------------------------------------------------------------
(* Properties of the commands of the Meal Composer *)

\* C25: exit stores the working copy, line by line, under the session's meal
\* name in memory and on disk, whatever was stored under it before; every
\* other stored meal stays as it was, no other name is stored, and the session
\* ends in Saved.  Saved is entered by no other step than an exit.
C25_ExitStoresWorkingCopy ==
    [][/\ (mode = "editor" /\ EditorQuit) =>
              /\ DOMAIN meals' = DOMAIN meals \cup {meal_name}
              /\ Lines(meals'[meal_name], heap') = WorkingLines
              /\ DOMAIN meals_file' = DOMAIN meals'
              /\ meals_file'[meal_name] = WorkingLines
              /\ \A n \in DOMAIN meals \ {meal_name} :
                     /\ Lines(meals'[n], heap') = Lines(meals[n], heap)
                     /\ meals_file'[n] = meals_file[n]
              /\ editor' = "Saved"
              /\ mode' = "main"
       /\ (editor # "Saved" /\ editor' = "Saved") => EditorQuit]_vars

\* an exit has stored a meal of two lines next to another stored meal
C25_Witness ==
    /\ mode = "main"
    /\ editor = "Saved"
    /\ out = "meal_saved"
    /\ DOMAIN meals = {"m", "n"}
    /\ Len(meals["m"]) = 1
    /\ Len(meals["n"]) = 2
    /\ meals_file = Dumped(meals, heap)

\* the pieces arguments that are not a positive integer
BadPiecesArgs == {a \in PiecesArgs : ~a.num \/ a.v < 1}

\* C26: an add whose food is not in the Food Catalog, or whose pieces are not
\* a positive integer, is refused: the session stays in Editing, and the
\* working copy, the stored meals and the meals file are as before.
C26_RefusedAddChangesNothing ==
    [][mode = "editor" =>
       \A food_name \in FoodNames, pieces_arg \in PiecesArgs :
          (EditorAdd(food_name, pieces_arg)
           /\ (food_name \notin DOMAIN foods \/ pieces_arg \in BadPiecesArgs))
          => /\ out' = (IF food_name \notin DOMAIN foods THEN "editor_food_not_found"
                        ELSE IF ~pieces_arg.num THEN "editor_invalid_pieces"
                        ELSE "editor_pieces_not_positive")
             /\ mode' = "editor"
             /\ editor' = "Editing"
             /\ meal_name' = meal_name
             /\ Lines(current_meal_contents', heap') = WorkingLines
             /\ Dumped(meals', heap') = Dumped(meals, heap)
             /\ meals_file' = meals_file]_vars

\* an add of pieces that are not positive was refused in a session whose
\* working copy has two lines
C26_Witness ==
    /\ mode = "editor"
    /\ editor = "Editing"
    /\ out = "editor_pieces_not_positive"
    /\ Len(WorkingLines) = 2

\* C27: a delete of a food that has a line removes that line and keeps every
\* other line, in the order they had; a delete of a food that has no line
\* leaves the working copy as it is, with a notice; either way the session
\* stays in Editing and the stored meals and the meals file are as before.
C27_DeleteRemovesTheLine ==
    [][mode = "editor" =>
       \A food_name \in FoodNames :
          EditorDelete(food_name)
          => LET before == WorkingLines
                 after == Lines(current_meal_contents', heap')
                 Other(line) == line.food # food_name
             IN  /\ after = SelectSeq(before, Other)
                 /\ IF \E i \in 1..Len(before) : before[i].food = food_name
                    THEN /\ out' = "line_removed"
                         /\ Len(after) = Len(before) - 1
                    ELSE /\ out' = "line_not_in_meal"
                         /\ after = before
                 /\ mode' = "editor"
                 /\ editor' = "Editing"
                 /\ Dumped(meals', heap') = Dumped(meals, heap)
                 /\ meals_file' = meals_file]_vars

\* the second line of a meal opened with 'edit meal' was removed: the working
\* copy is the stored first line
C27_Witness ==
    /\ mode = "editor"
    /\ out = "line_removed"
    /\ meal_name \in DOMAIN meals
    /\ Len(meals[meal_name]) = 2
    /\ WorkingLines = <<heap[meals[meal_name][1]]>>

----------------------------------------------------------------------------
(* Properties of the aggregation over references that do not resolve *)

\* the entry names nothing in the catalog of its type
Dangling(e) ==
    \/ e.type = "food" /\ e.name \notin DOMAIN foods
    \/ e.type = "meal" /\ e.name \notin DOMAIN meals
    \/ e.type = "activity" /\ e.name \notin DOMAIN activities

\* the lines of a meal whose food is in the catalog
ResolvableLines(lines) ==
    LET Resolves(line) == line.food \in DOMAIN foods
    IN  SelectSeq(lines, Resolves)

\* the data with every meal cut down to its resolvable lines
AppDataResolvable ==
    [AppData EXCEPT !.meals = [n \in DOMAIN AppData.meals |-> ResolvableLines(AppData.meals[n])]]

\* C28: the day total of a day with an entry that does not resolve is the day
\* total of the same entries without it, so the entries before and after it
\* contribute in full; a stored meal totals what its resolvable lines total;
\* and the day total is what it would be if every meal held only its
\* resolvable lines.
C28_DanglingReferencesAreSkipped ==
    out = "day_totals" =>
        /\ \A i \in 1..Len(day_entries) :
               Dangling(day_entries[i])
               => total_nutrition = calculate_day_nutrition(Without(day_entries, i), AppData)
        /\ \A m \in DOMAIN meals :
               calculate_meal_nutrition(Lines(meals[m], heap), foods)
                   = calculate_meal_nutrition(ResolvableLines(Lines(meals[m], heap)), foods)
        /\ total_nutrition = calculate_day_nutrition(day_entries, AppDataResolvable)

\* toast, a food that is gone, and a meal of toast, a food that is gone and
\* two mints: 200 + (200 + 2) calories
C28_Witness ==
    /\ out = "day_totals"
    /\ day_entries = <<[type |-> "food", name |-> "toast", quantity |-> 1],
                       [type |-> "food", name |-> "cherry", quantity |-> 1],
                       [type |-> "meal", name |-> "m", quantity |-> 1]>>
    /\ Dangling(day_entries[2])
    /\ ResolvableLines(Lines(meals["m"], heap)) # Lines(meals["m"], heap)
    /\ total_nutrition.calories = 402

----------------------------------------------------------------------------
(* Properties of the diary *)

\* C29: whatever commands came before, the totals a 'view day' shows are the
\* sum, over the stored entries of the day, of what the catalogs and meals
\* hold for them at that moment; the diary entries in memory and on disk
\* hold a type, a name and a quantity and nothing else, and the meal lines
\* hold a food name and a quantity and nothing else.
C29_TotalsFromCurrentCatalogs ==
    [][/\ (ViewDay /\ day_entries # <<>>) =>
              \A n \in Nutrients : total_nutrition'[n] = DayTotal(day_entries, n)
       /\ \A i \in 1..Len(day_entries') :
              DOMAIN day_entries'[i] = {"type", "name", "quantity"}
       /\ diary_file' = day_entries'
       /\ \A id \in DOMAIN heap' : DOMAIN heap'[id] = {"food", "quantity"}]_vars

\* the day holds an apple logged when the catalog had it, which is gone, and
\* two of a 'running' whose profile is the second one: the totals are minus twice
\* that profile
C29_Witness ==
    /\ out = "day_totals"
    /\ day_entries = <<[type |-> "food", name |-> "apple", quantity |-> 2],
                       [type |-> "activity", name |-> "running", quantity |-> 2]>>
    /\ "apple" \notin DOMAIN foods
    /\ "running" \in DOMAIN activities
    /\ activities["running"] = Profile(2, 1, 1, 1)
    /\ total_nutrition = Profile(0 - 4, 0 - 2, 0 - 2, 0 - 2)

----------------------------------------------------------------------------
(* Properties of the summary *)

\* the entries the diary holds for the date i days before today, none if
\* the diary has no such date
EntriesOn(i) ==
    IF i = 0 THEN day_entries
    ELSE IF i > Len(earlier_days) THEN <<>>
    ELSE IF earlier_days[i].present THEN earlier_days[i].entries
    ELSE <<>>

\* the dates of a window of N days that have at least one entry
DatesWithEntries(N) == {i \in 0..(N - 1) : Len(EntriesOn(i)) >= 1}

\* the sum of the day totals of nutrient n over the dates of the window
\* that have entries
WindowTotal(N, n) ==
    SumOf([k \in 1..N |-> IF (k - 1) \in DatesWithEntries(N)
                          THEN DayTotal(EntriesOn(k - 1), n) ELSE 0])

\* C30: a summary over a window of N days that prints averages prints, for
\* every nutrient, the hundredth nearest to the sum of the day totals divided
\* by the number of dates of the window that have at least one entry, dates
\* that are absent or have an empty list not being counted; a summary over a
\* window without any such date prints the notice and divides nothing.
C30_AverageOverDaysWithEntries ==
    /\ out = "summary_average" =>
           LET N == summary.num_days
               D == Cardinality(DatesWithEntries(N))
           IN  /\ D > 0
               /\ summary.averaged
               /\ summary.days_with_entries = D
               /\ \A n \in Nutrients :
                      2 * Abs(100 * WindowTotal(N, n) - D * summary.average[n]) <= D
    /\ out = "summary_no_entries" =>
           /\ DatesWithEntries(summary.num_days) = {}
           /\ ~summary.averaged

\* a window of seven days of which two have entries, today and the day
\* before yesterday, yesterday's list being empty: 78 and 52 calories are
\* averaged to 65.00, 6 g and 2 g of protein to 4.00 g
C30_Witness ==
    /\ out = "summary_average"
    /\ summary.num_days = 7
    /\ summary.days_with_entries = 2
    /\ Len(earlier_days) = 2
    /\ earlier_days[1] = [present |-> TRUE, entries |-> <<>>]
    /\ earlier_days[2].entries = <<[type |-> "food", name |-> "apple", quantity |-> 1]>>
    /\ Len(day_entries) = 2
    /\ summary.average.calories = 6500
    /\ summary.average.protein = 400

----------------------------------------------------------------------------
(* Properties of the pager of the log handlers *)

\* sortedList[(page-1)*pageSize : page*pageSize]
PageSlice(list, page) ==
    SubSeq(list, (page - 1) * items_per_page + 1, Min(page * items_per_page, Len(list)))

\* the names of a sequence of names
NamesOf(seq) == {seq[k] : k \in 1..Len(seq)}

\* C31: every selection the pager accepts logs a record of the slice of the
\* page on display, and a command that logs nothing leaves the diary as it was.
C31_SelectionWithinCurrentPage ==
    [][mode = "log" =>
           IF out' = "logged"
           THEN day_entries'[Len(day_entries')].name
                    \in NamesOf(PageSlice(LogList(log_type), log_page))
           ELSE day_entries' = day_entries]_vars

\* the answers to the quantity prompt that are no integer or are below 1
BadLogQuantityArgs == {q \in LogQuantityArgs : ~q.num \/ q.v < 1}

\* C32: after a selection the pager accepts, an answer to the quantity prompt
\* that is no integer or is not positive appends nothing, leaves the diary in
\* memory and on disk and the page as they are, and the pager prompts again.
C32_InvalidQuantityIsRecoverable ==
    [][\A c \in LogCommandArgs, q \in BadLogQuantityArgs :
           (LogSelect(c, q) /\ c.num /\ c.v \in 1..Len(LogList(log_type)))
           => /\ day_entries' = day_entries
              /\ diary_file' = diary_file
              /\ today_in_diary' = today_in_diary
              /\ earlier_days' = earlier_days
              /\ log_page' = log_page
              /\ log_type' = log_type
              /\ mode' = "log"
              /\ out' \in {"log_invalid_quantity", "log_quantity_not_positive"}]_vars

\* the activity logger prompts again after a quantity of 0, the day holding
\* what it held
C32_Witness ==
    /\ mode = "log"
    /\ log_type = "activity"
    /\ out = "log_quantity_not_positive"
    /\ log_page = 1
    /\ Len(day_entries) = 1
    /\ diary_file = day_entries

----------------------------------------------------------------------------
(* Properties of the diary under the log handlers and 'remove log' *)

\* the positions 'remove log' takes for a day
ValidPositions(entries) == 1..Len(entries)

\* the step appends one entry to the current date and changes nothing else of the diary
AppendsOne ==
    /\ Len(day_entries') = Len(day_entries) + 1
    /\ \A k \in 1..Len(day_entries) : day_entries'[k] = day_entries[k]
    /\ earlier_days' = earlier_days
    /\ diary_file' = day_entries'

\* the step removes the i-th entry of the current date and changes nothing else of the diary
RemovesAt(i) ==
    /\ Len(day_entries') = Len(day_entries) - 1
    /\ \A k \in 1..(i - 1) : day_entries'[k] = day_entries[k]
    /\ \A k \in i..Len(day_entries') : day_entries'[k] = day_entries[k + 1]
    /\ earlier_days' = earlier_days
    /\ diary_file' = day_entries'

\* the step leaves the diary in memory and on disk as it is
DiaryUnchanged ==
    /\ day_entries' = day_entries
    /\ earlier_days' = earlier_days
    /\ diary_file' = diary_file

\* C33: a log that succeeds appends one entry at the end of the current date
\* and changes no entry that was there; 'remove log' with a valid position i
\* removes the i-th entry of the current date, the others keeping their
\* order, and no other date changes; 'remove log' with a position that is no
\* integer or is out of range leaves the diary as it is; and no step changes
\* the diary in any other way.
C33_AppendOnlyExceptRemoval ==
    [][/\ out' = "logged" => AppendsOne
       /\ \A index_arg \in IndexArgs :
              RemoveLog(index_arg) =>
                  IF today_in_diary /\ index_arg.num /\ index_arg.v \in ValidPositions(day_entries)
                  THEN RemovesAt(index_arg.v) /\ out' = "log_removed"
                  ELSE DiaryUnchanged /\ out' # "log_removed"
       /\ \/ AppendsOne
          \/ \E i \in ValidPositions(day_entries) : RemovesAt(i)
          \/ DiaryUnchanged]_vars

\* the first of two entries has been removed: the second is what is left
C33_Witness ==
    /\ out = "log_removed"
    /\ day_entries = <<[type |-> "activity", name |-> "running", quantity |-> 2]>>
    /\ diary_file = day_entries
    /\ total_nutrition = Profile(52 * 2 - 300 * 2, 2, 28, 4)
    /\ Len(earlier_days) = 1

\* C34: a date that is a key of the diary is a key in every later state,
\* also when its last entry is removed; the current date becomes a key only
\* by a log that succeeds, which leaves it with its first entry; a date that
\* is no key has no entries; and no step changes which earlier dates are keys.
C34_DateCreatedLazilyNeverDeleted ==
    [][/\ today_in_diary => today_in_diary'
       /\ (~today_in_diary /\ today_in_diary')
              => (mode = "log" /\ out' = "logged" /\ Len(day_entries') = 1)
       /\ ~today_in_diary' => day_entries' = <<>>
       /\ Len(earlier_days') = Len(earlier_days)
       /\ \A i \in 1..Len(earlier_days) : earlier_days'[i].present = earlier_days[i].present]_vars

\* the only entry of the current date has been removed: the date is a key
\* with an empty list
C34_Witness ==
    /\ out = "log_removed"
    /\ today_in_diary
    /\ day_entries = <<>>
    /\ diary_file = <<>>

----------------------------------------------------------------------------
(* Properties of a date without entries *)

\* C35: for the current date without entries, 'view day', 'remove log',
\* 'summary 1' and the empty command line each print the same whether the
\* date is a key mapped to an empty list or no key of the diary: they print
\* what they print for a date that is no key, and change no totals.
C35_EmptyDateIsAbsentDate ==
    [][(mode = "main" /\ day_entries = <<>>) =>
           /\ handle_view_day =>
                  out' = "no_diary_entries_found" /\ UNCHANGED total_nutrition
           /\ (RemoveLogUsage \/ \E index_arg \in IndexArgs : RemoveLog(index_arg)) =>
                  out' = "no_entries_to_remove" /\ UNCHANGED total_nutrition
           /\ TodaySummary =>
                  out' = "no_entries_logged_for_today" /\ UNCHANGED total_nutrition
           /\ (Summary([given |-> TRUE, num |-> TRUE, v |-> 1])) =>
                  out' = "summary_no_entries" /\ UNCHANGED total_nutrition]_vars

----------------------------------------------------------------------------
(* Properties of the store *)

\* C36: after every command, also one whose save failed, the foods in memory
\* are the foods of the file.
C36_FailedSaveNotCommitted == foods = foods_file

----------------------------------------------------------------------------
(* Properties of the pages of the Remote Search Browser *)

C38_PageStableAcrossVisits ==
    mode = "search" =>
        displayed_rows = DisplayRows(ProductsOfPage(svc_products, current_page), current_filter)

----------------------------------------------------------------------------
(* Properties of the pages of the log handlers *)

\* the number of pages n names take: the least t with t pages holding them all
PagesNeeded(n) == CHOOSE t \in 0..n : t * items_per_page >= n /\ (t - 1) * items_per_page < n

\* the page of the pager is one of the pages of the sorted catalog, and the
\* table on display holds at least one row
LogPageInRange ==
    mode = "log" =>
        /\ 1 <= log_page
        /\ log_page <= PagesNeeded(Len(LogList(log_type)))
        /\ Len(log_rows) >= 1

\* the quantities the quantity prompt accepts
GoodLogQuantityArgs == {q \in LogQuantityArgs : q.num /\ q.v >= 1}

\* C39: in the pager of each log handler the page is one of the pages
\* 1..total_pages of the sorted catalog before and after every step; 'n' on
\* the last page and 'p' on the first leave the page as it is; and a
\* selection by the number shown next to a row of the table on display logs
\* the name of that row.
C39_LogPagerPagesAndNumbers ==
    [][/\ LogPageInRange
       /\ LogPageInRange'
       /\ (LogNext /\ log_page = PagesNeeded(Len(LogList(log_type)))) => log_page' = log_page
       /\ (LogPrev /\ log_page = 1) => log_page' = log_page
       /\ \A c \in LogCommandArgs, q \in GoodLogQuantityArgs :
              \A k \in 1..Len(log_rows) :
                  (LogSelect(c, q) /\ c.num /\ c.v = log_rows[k].index)
                  => /\ out' = "logged"
                     /\ day_entries'[Len(day_entries')]
                            = [type |-> log_type, name |-> log_rows[k].name, quantity |-> q.v]]_vars

\* mint, the third name of the sorted catalog and the only row of its second
\* page, has been logged by its number
C39_Witness ==
    /\ out = "logged"
    /\ day_entries = <<[type |-> "food", name |-> "mint", quantity |-> 2]>>
    /\ "mint" \in DOMAIN foods

----------------------------------------------------------------------------
(* Properties of the entries and lines the handlers create *)

\* the foods of the lines of a working copy
LineFoods(contents, h) == {h[contents[i]].food : i \in 1..Len(contents)}

\* C40: an entry a log handler appends has a whole quantity of at least 1,
\* the type of the handler and a name that is a key of the handler's catalog
\* at that moment, and with it the pager ends; a step that leaves the pager
\* running appends nothing, so a session appends one entry at most. Every
\* line of the working copy of the meal editor has a whole quantity of at
\* least 1, and a food that enters the working copy is in the Food Catalog.
C40_CreatedEntriesAndLinesAreValid ==
    [][/\ (mode = "log" /\ day_entries' # day_entries) =>
              LET e == day_entries'[Len(day_entries')]
              IN  /\ Len(day_entries') = Len(day_entries) + 1
                  /\ e.quantity \in Nat
                  /\ e.quantity >= 1
                  /\ e.type = log_type
                  /\ e.name \in DOMAIN LogCatalog(log_type)
                  /\ out' = "logged"
                  /\ mode' = "main"
       /\ (mode = "log" /\ mode' = "log") => day_entries' = day_entries
       /\ (mode = "log" /\ out' = "logged") => (mode' = "main" /\ day_entries' # day_entries)
       /\ mode' = "editor" =>
              /\ \A i \in 1..Len(current_meal_contents') :
                     /\ heap'[current_meal_contents'[i]].quantity \in Nat
                     /\ heap'[current_meal_contents'[i]].quantity >= 1
              /\ mode = "editor" =>
                     \A f \in LineFoods(current_meal_contents', heap')
                                  \ LineFoods(current_meal_contents, heap) :
                         f \in DOMAIN foods]_vars

\* a meal with two apples has been composed and saved, and two of the meal
\* have been logged
C40_Witness ==
    /\ out = "logged"
    /\ mode = "main"
    /\ day_entries = <<[type |-> "meal", name |-> "m", quantity |-> 2]>>
    /\ Len(meals["m"]) = 1
    /\ heap[meals["m"][1]] = [food |-> "apple", quantity |-> 2]

====
